---- MODULE Spec2Model ----
(***************************************************************************)
(* A model of the eolnpoc chat node (cmd/olnnode/chat.go): the in-memory   *)
(* prioritised message cache, its filters, the bus receiver, the           *)
(* rebroadcast scan and the TTL sweep, together with the pluscode library  *)
(* (location/pluscode.go) and the proof-of-work detection the cache uses.  *)
(*                                                                         *)
(* Time is counted in units of 12 hours, so that a TTL of d days is        *)
(* d * DayUnits units and half of it is a whole number of units, as it is  *)
(* in nanoseconds in the program.  In Spec one handler is one action; in   *)
(* LockSpec a handler is the steps it takes on the state lock              *)
(* (sync.RWMutex): acquire, body, release.                                 *)
(***************************************************************************)
EXTENDS Integers, Sequences, FiniteSets, TLC

VARIABLES
    Cache,          \* ChatState.Cache: hash -> MessageEntry
    Filters,        \* ChatState.Filters: [Hashtags, Locations]
    MaxCacheSize,   \* ChatState.MaxCacheSize (the --max-cache flag)
    now,            \* the wall clock, time.Now()
    alive,          \* FALSE once a panic has terminated the process
    rxPending,      \* messages of the bundle in hand not yet passed to addMessage
    op,             \* history: the handler that ran last and what it did
    emitted,        \* history: the bundles the last handler published on the bus
    seen,           \* history: the hashes that were ever inserted into the cache
    sends,          \* history: per cached hash, rebroadcasts since insertion
    mu,             \* ChatState.mu (sync.RWMutex): its writer and its readers
    pc,             \* per goroutine, where it is in the handler it runs
    arg,            \* what the operator typed last: a filter command, or a text to publish
    AutoPoWBits,    \* ChatState.AutoPoWBits (the --auto-pow flag)
    stopChan,       \* ChatState.stopChan: "open", or "closed"
    call            \* a call of a library function: its arguments, and its result once made

vars == <<Cache, Filters, MaxCacheSize, now, alive, rxPending, op, emitted, seen, sends,
          mu, pc, arg, AutoPoWBits, stopChan, call>>

-----------------------------------------------------------------------------
(* Bounds of the model. *)

MaxTime == 1            \* the clock runs from 0 to MaxTime
MaxSends == 2           \* the rebroadcast counter saturates here
MaxBits == 2            \* the library is asked for 0 to MaxBits bits of work

(* Program constants. *)

maxHops == 3
ttlDays == 7
DayUnits == 2           \* 24 * time.Hour, in units of 12 hours

-----------------------------------------------------------------------------
(* Strings.  A Go string is a TLA+ string; s[i] is SubSeq(s, i, i). *)

Char(s, i) == SubSeq(s, i, i)

Min(a, b) == IF a < b THEN a ELSE b

\* Go's integer division truncates toward zero.
Quot(a, b) ==
    IF (a >= 0 /\ b > 0) \/ (a <= 0 /\ b < 0) THEN a \div b
    ELSE IF b > 0 THEN -((-a) \div b)
    ELSE -(a \div (-b))

\* strings.Contains
Contains(s, sub) ==
    \E i \in 1..(Len(s) - Len(sub) + 1) : SubSeq(s, i, i + Len(sub) - 1) = sub

\* the position of the first occurrence of the one-character string c in s
\* at or after position i, or 0
RECURSIVE IndexFrom(_, _, _)
IndexFrom(s, c, i) ==
    IF i > Len(s) THEN 0
    ELSE IF Char(s, i) = c THEN i
    ELSE IndexFrom(s, c, i + 1)

\* strings.Split(s, sep) for a one-character separator
RECURSIVE Split(_, _)
Split(s, sep) ==
    LET i == IndexFrom(s, sep, 1)
    IN  IF i = 0 THEN <<s>>
        ELSE <<SubSeq(s, 1, i - 1)>> \o Split(SubSeq(s, i + 1, Len(s)), sep)

\* strings.TrimSpace, for the ASCII space
RECURSIVE TrimLeft(_)
TrimLeft(s) ==
    IF Len(s) > 0 /\ Char(s, 1) = " " THEN TrimLeft(SubSeq(s, 2, Len(s))) ELSE s

RECURSIVE TrimRight(_)
TrimRight(s) ==
    IF Len(s) > 0 /\ Char(s, Len(s)) = " "
    THEN TrimRight(SubSeq(s, 1, Len(s) - 1)) ELSE s

TrimSpace(s) == TrimRight(TrimLeft(s))

Upper == "ABCDEFGHIJKLMNOPQRSTUVWXYZ"
Lower == "abcdefghijklmnopqrstuvwxyz"

\* the lower-case form of one character (ASCII letters)
LowerChar(c) ==
    LET i == IndexFrom(Upper, c, 1)
    IN  IF i = 0 THEN c ELSE Char(Lower, i)

RECURSIVE ToLower(_)
ToLower(s) ==
    IF Len(s) = 0 THEN ""
    ELSE LowerChar(Char(s, 1)) \o ToLower(SubSeq(s, 2, Len(s)))

\* strings.EqualFold, on ASCII text
EqualFold(a, b) == ToLower(a) = ToLower(b)

\* membership of x in the sequence q
InSeq(x, q) == \E i \in 1..Len(q) : q[i] = x

\* q with x appended unless it is there already
AppendNew(q, x) == IF InSeq(x, q) THEN q ELSE Append(q, x)

-----------------------------------------------------------------------------
(* location/pluscode.go *)

base20 == "23456789CFGHJMPQRVWX"

IsBase20(c) == IndexFrom(base20, c, 1) # 0

\* every character of s from position i to position j is in base20
AllBase20(s, i, j) == \A k \in i..j : IsBase20(Char(s, k))

ValidatePluscode(input) ==
    LET code == TrimSpace(input)
        parts == Split(code, "+")
    IN  /\ Contains(code, "+")
        /\ Len(parts) = 2
        /\ Len(parts[1]) = 8
        /\ Len(parts[2]) <= 2
        /\ AllBase20(parts[1], 1, 8)
        /\ AllBase20(parts[2], 1, Len(parts[2]))

\* the length of the match of [base20]{8}\+[base20]{0,2} that starts at
\* position i of text, or 0 when there is none (the suffix is greedy)
PluscodeMatchLen(text, i) ==
    IF /\ i + 8 <= Len(text)
       /\ AllBase20(text, i, i + 7)
       /\ Char(text, i + 8) = "+"
    THEN IF i + 9 <= Len(text) /\ IsBase20(Char(text, i + 9))
         THEN IF i + 10 <= Len(text) /\ IsBase20(Char(text, i + 10))
              THEN 11 ELSE 10
         ELSE 9
    ELSE 0

\* re.FindAllString: the leftmost matches, left to right, not overlapping
RECURSIVE FindAllPluscodes(_, _)
FindAllPluscodes(text, i) ==
    IF i > Len(text) THEN <<>>
    ELSE LET n == PluscodeMatchLen(text, i)
         IN  IF n = 0 THEN FindAllPluscodes(text, i + 1)
             ELSE <<SubSeq(text, i, i + n - 1)>> \o FindAllPluscodes(text, i + n)

\* the elements of q that pass keep, without repetition, in order of first occurrence
RECURSIVE DedupValid(_, _, _)
DedupValid(q, acc, keepInvalid) ==
    IF Len(q) = 0 THEN acc
    ELSE DedupValid(Tail(q),
                    IF ~InSeq(Head(q), acc) /\ (keepInvalid \/ ValidatePluscode(Head(q)))
                    THEN Append(acc, Head(q)) ELSE acc,
                    keepInvalid)

ExtractPluscodes(text) == DedupValid(FindAllPluscodes(text, 1), <<>>, FALSE)

\* the matches of #geo([base20]{8}), each as its eight characters plus "+"
RECURSIVE FindAllGeo(_, _)
FindAllGeo(text, i) ==
    IF i > Len(text) THEN <<>>
    ELSE IF /\ i + 11 <= Len(text)
            /\ SubSeq(text, i, i + 3) = "#geo"
            /\ AllBase20(text, i + 4, i + 11)
         THEN <<SubSeq(text, i + 4, i + 11) \o "+">> \o FindAllGeo(text, i + 12)
         ELSE FindAllGeo(text, i + 1)

ExtractGeoHashtags(text) == DedupValid(FindAllGeo(text, 1), <<>>, TRUE)

AllPlustags(text) ==
    DedupValid(ExtractPluscodes(text) \o ExtractGeoHashtags(text), <<>>, TRUE)

\* a count that leaves out the first position
RECURSIVE MatchingChars_FromSecond(_, _, _)
MatchingChars_FromSecond(prefix1, prefix2, i) ==
    IF i < 8 /\ i < Len(prefix1) /\ i < Len(prefix2)
       /\ Char(prefix1, i + 1) = Char(prefix2, i + 1)
    THEN 1 + MatchingChars_FromSecond(prefix1, prefix2, i + 1)
    ELSE 0

\* the number of leading positions, up to 8, at which the prefixes agree
RECURSIVE MatchingChars(_, _, _)
MatchingChars(prefix1, prefix2, i) ==
    IF i <= 8 /\ i <= Len(prefix1) /\ i <= Len(prefix2)
       /\ Char(prefix1, i) = Char(prefix2, i)
    THEN 1 + MatchingChars(prefix1, prefix2, i + 1)
    ELSE 0

CalculateProximity(location1, location2) ==
    IF ~ValidatePluscode(location1) \/ ~ValidatePluscode(location2) THEN 0
    ELSE (MatchingChars(Split(location1, "+")[1], Split(location2, "+")[1], 1) * 500) \div 8

\* the hierarchy of a pluscode, finest first; empty for an invalid code
GetParentPlustags(code) ==
    IF ~ValidatePluscode(code) THEN <<>>
    ELSE LET parts == Split(code, "+")
             prefix == parts[1]
             suffix == parts[2]
             n == Len(prefix)
         IN  <<code>>
             \o (IF suffix # "" THEN <<prefix \o "+">> ELSE <<>>)
             \o (IF Len(suffix) = 2 THEN <<prefix \o "+" \o Char(suffix, 1)>> ELSE <<>>)
             \o (IF n >= 2 THEN <<SubSeq(prefix, 1, n - 2) \o "00" \o "+">> ELSE <<>>)
             \o (IF n >= 4 THEN <<SubSeq(prefix, 1, n - 4) \o "0000" \o "+">> ELSE <<>>)
             \o (IF n >= 6 THEN <<SubSeq(prefix, 1, n - 6) \o "000000" \o "+">> ELSE <<>>)
             \o <<"00000000+">>

-----------------------------------------------------------------------------
(* pow/pow.go *)

base64url == "ABCDEFGHIJKLMNOPQRSTUVWXYZabcdefghijklmnopqrstuvwxyz0123456789-_"

\* base64.URLEncoding.DecodeString(s) succeeds: whole quanta of four characters
\* of the URL-safe alphabet, the last one padded with at most two "="
Base64Decodes(s) ==
    LET n == Len(s)
        pad == IF n >= 2 /\ SubSeq(s, n - 1, n) = "==" THEN 2
               ELSE IF n >= 1 /\ Char(s, n) = "=" THEN 1 ELSE 0
    IN  /\ n % 4 = 0
        /\ \A k \in 1..(n - pad) : IndexFrom(base64url, Char(s, k), 1) # 0

\* ParsePoWMessage returns without error
ParsePoWMessageOk(encoded) ==
    LET parts == Split(encoded, ";")
    IN  Len(parts) >= 4 /\ Base64Decodes(parts[3])

\* the printable characters of ASCII, from code 32 on (a tab stands where
\* the grave accent is, which a string here cannot hold)
Ascii ==
    " !\"#$%&'()*+,-./0123456789:;<=>?@ABCDEFGHIJKLMNOPQRSTUVWXYZ[\\]^_\tabcdefghijklmnopqrstuvwxyz{|}~"

\* the bytes of a quantum: its characters as 6-bit digits, the missing ones 0,
\* cut to the bytes the quantum holds
QuantumBytes(q) ==
    LET d(k) == IF k <= Len(q) THEN IndexFrom(base64url, Char(q, k), 1) - 1 ELSE 0
        n == d(1) * 262144 + d(2) * 4096 + d(3) * 64 + d(4)
        bytes == <<n \div 65536, (n \div 256) % 256, n % 256>>
    IN  SubSeq(bytes, 1, Len(q) - 1)

\* base64.URLEncoding.DecodeString(s) where it succeeds, as text
RECURSIVE Base64Decode(_)
Base64Decode(s) ==
    IF Len(s) = 0 THEN ""
    ELSE LET q == SubSeq(s, 1, 4)
             data == IF SubSeq(q, 3, 4) = "==" THEN SubSeq(q, 1, 2)
                     ELSE IF Char(q, 4) = "=" THEN SubSeq(q, 1, 3) ELSE q
             bytes == QuantumBytes(data)
             text == [k \in 1..Len(bytes) |-> Char(Ascii, bytes[k] - 31)]
         IN  (IF Len(text) = 0 THEN "" ELSE IF Len(text) = 1 THEN text[1]
              ELSE IF Len(text) = 2 THEN text[1] \o text[2]
              ELSE text[1] \o text[2] \o text[3])
             \o Base64Decode(SubSeq(s, 5, Len(s)))

\* strings.Join(parts[from:], sep)
RECURSIVE JoinFrom(_, _, _)
JoinFrom(parts, from, sep) ==
    IF from > Len(parts) THEN ""
    ELSE IF from = Len(parts) THEN parts[from]
    ELSE parts[from] \o sep \o JoinFrom(parts, from + 1, sep)

\* ParsePoWMessage: whether it fails, and nonce, date, message and keyword
ParsePoWMessage(encoded) ==
    LET parts == Split(encoded, ";")
        failed == [err |-> TRUE, nonce |-> "", date |-> "", message |-> "", keyword |-> ""]
    IN  IF Len(parts) < 4 THEN failed
        ELSE IF ~Base64Decodes(parts[3]) THEN failed
        ELSE [err |-> FALSE,
              nonce |-> parts[1],
              date |-> parts[2],
              message |-> Base64Decode(parts[3]),
              keyword |-> JoinFrom(parts, 4, ";")]

\* the number of leading zero bits of sha1.Sum(s), for the texts of the model
SHA1LeadingZeros(s) ==
    CASE s = "93;20240101000000;aGk=;oln" -> 6
      [] s = "5;20240101000000;aGk=;oln" -> 5
      [] s = "other #other" -> 1
      [] s = "0;20240101000000;aGkgI29sbg==;oln" -> 0
      [] s = "1;20240101000000;aGkgI29sbg==;oln" -> 0
      [] s = "2;20240101000000;aGkgI29sbg==;oln" -> 3
      [] s = "0;20240101000000;I2IgI2EgNkZHMjIyMzMrIDZGRzIyMjQ0KyAjYQ==;oln" -> 1
      [] s = "1;20240101000000;I2IgI2EgNkZHMjIyMzMrIDZGRzIyMjQ0KyAjYQ==;oln" -> 0
      [] s = "2;20240101000000;I2IgI2EgNkZHMjIyMzMrIDZGRzIyMjQ0KyAjYQ==;oln" -> 2
      [] s = "0;20240101000000;aGk=;oln" -> 0
      [] s = "1;20240101000000;aGk=;oln" -> 0
      [] s = "2;20240101000000;aGk=;oln" -> 0
      [] s = "3;20240101000000;aGk=;oln" -> 0
      [] s = "4;20240101000000;aGk=;oln" -> 0
      [] s = "0;20240101000000;aGk=;a;b" -> 1
      [] s = "1;20240101000000;aGk=;a;b" -> 4
      [] s = "0;20240101000000;aGk=;5%!(NOVERB)" -> 1
      [] s = "1;20240101000000;aGk=;5%!(NOVERB)" -> 0
      [] s = "2;20240101000000;aGk=;5%!(NOVERB)" -> 5
      [] s = "0;20240101000000;aGkgI29sbg==;a;b" -> 0
      [] s = "1;20240101000000;aGkgI29sbg==;a;b" -> 0
      [] s = "2;20240101000000;aGkgI29sbg==;a;b" -> 0
      [] s = "3;20240101000000;aGkgI29sbg==;a;b" -> 0
      [] s = "4;20240101000000;aGkgI29sbg==;a;b" -> 1
      [] s = "5;20240101000000;aGkgI29sbg==;a;b" -> 0
      [] s = "6;20240101000000;aGkgI29sbg==;a;b" -> 1
      [] s = "7;20240101000000;aGkgI29sbg==;a;b" -> 0
      [] s = "8;20240101000000;aGkgI29sbg==;a;b" -> 0
      [] s = "9;20240101000000;aGkgI29sbg==;a;b" -> 5
      [] s = "0;20240101000000;aGkgI29sbg==;5%!(NOVERB)" -> 2
      [] s = "1;20240101000000;aGkgI29sbg==;5%!(NOVERB)" -> 0
      [] s = "2;20240101000000;aGkgI29sbg==;5%!(NOVERB)" -> 0
      [] s = "3;20240101000000;aGkgI29sbg==;5%!(NOVERB)" -> 0
      [] s = "4;20240101000000;aGkgI29sbg==;5%!(NOVERB)" -> 0
      [] s = "5;20240101000000;aGkgI29sbg==;5%!(NOVERB)" -> 1
      [] s = "6;20240101000000;aGkgI29sbg==;5%!(NOVERB)" -> 0
      [] s = "7;20240101000000;aGkgI29sbg==;5%!(NOVERB)" -> 0
      [] s = "8;20240101000000;aGkgI29sbg==;5%!(NOVERB)" -> 4
      [] s = "1;2;aGk;k" -> 2
      [] s = "a;b;c" -> 0
      [] OTHER -> 0

ValidatePoW(encoded) == SHA1LeadingZeros(encoded)

\* what fmt.Sprintf makes of the part of a format that follows its last
\* operand: text as it is, "%%" a percent sign, a verb without operand
\* "%!v(MISSING)", a "%" at the end "%!(NOVERB)" (no flags, no widths)
RECURSIVE SprintfRest(_)
SprintfRest(s) ==
    IF Len(s) = 0 THEN ""
    ELSE IF Char(s, 1) # "%" THEN Char(s, 1) \o SprintfRest(SubSeq(s, 2, Len(s)))
    ELSE IF Len(s) = 1 THEN "%!(NOVERB)"
    ELSE IF Char(s, 2) = "%" THEN "%" \o SprintfRest(SubSeq(s, 3, Len(s)))
    ELSE "%!" \o Char(s, 2) \o "(MISSING)" \o SprintfRest(SubSeq(s, 3, Len(s)))

\* a search that returns the first nonce whatever its hash: the variant C24
\* is shown to reject
POWEncodeFrom_FirstNonce(bits, rest, i) == ToString(i) \o SprintfRest(rest)

\* POWEncode's search from nonce i on: fmt.Sprintf(format, i) for a format
\* "%d" \o rest, and the first whose hash starts with bits zero bits
RECURSIVE POWEncodeFrom(_, _, _)
POWEncodeFrom(bits, rest, i) ==
    LET encode == ToString(i) \o SprintfRest(rest)
    IN  IF SHA1LeadingZeros(encode) >= bits THEN encode
        ELSE POWEncodeFrom(bits, rest, i + 1)

POWEncode(bits, rest) == POWEncodeFrom(bits, rest, 0)

\* base64.URLEncoding.EncodeToString, for the texts of the model
Base64Encode(message) ==
    CASE message = "hi #oln" -> "aGkgI29sbg=="
      [] message = "hi" -> "aGk="
      [] message = "#b #a 6FG22233+ 6FG22244+ #a" -> "I2IgI2EgNkZHMjIyMzMrIDZGRzIyMjQ0KyAjYQ=="

\* time.Now().Format("20060102150405"), for the clock at its start
FormatDate(t) == CASE t = 0 -> "20240101000000"

\* CreatePoWMessage called at time t
CreatePoWMessage(bits, keyword, message, t) ==
    POWEncode(bits, ";" \o FormatDate(t) \o ";" \o Base64Encode(message) \o ";" \o keyword)

-----------------------------------------------------------------------------
(* The messages and bundles the bus can deliver. *)

\* olnjson.Message
Msg(raw, tags, ts, ttl, hops) ==
    [Raw |-> raw,
     Origin |-> [Display |-> "anonymous", PubKey |-> "", ServerName |-> ""],
     Sig |-> "",
     Timestamp |-> ts,
     TTL |-> ttl,
     Hops |-> hops,
     Tags |-> tags]

\* generateHash: the first 16 hexadecimal characters of sha256.Sum256(content),
\* for the texts of the model
generateHash(content) ==
    CASE content = "hello #oln" -> "8cdb25e87308a184"
      [] content = "at 6FG22233+" -> "e6ee62cdfeffa499"
      [] content = "other #other" -> "2bacb68c21ed2dbb"
      [] content = "hi #oln" -> "66c9669a0042634e"
      [] content = "#b #a 6FG22233+ 6FG22244+ #a" -> "0d53322a7892c1cd"
      [] content = "2;20240101000000;aGkgI29sbg==;oln" -> "68c183e0903133d3"
      [] content = "0;20240101000000;I2IgI2EgNkZHMjIyMzMrIDZGRzIyMjQ0KyAjYQ==;oln"
            -> "a888a538bcde33a7"
      [] content = "2;20240101000000;I2IgI2EgNkZHMjIyMzMrIDZGRzIyMjQ0KyAjYQ==;oln"
            -> "2f164e071101e1aa"

\* the class \w of the regular expressions
IsWordChar(c) == IndexFrom("0123456789_" \o Upper \o Lower, c, 1) # 0

\* the end of the longest run of word characters of text that starts at i
RECURSIVE WordEnd(_, _)
WordEnd(text, i) ==
    IF i <= Len(text) /\ IsWordChar(Char(text, i)) THEN WordEnd(text, i + 1) ELSE i - 1

\* re.FindAllString for #\w+
RECURSIVE FindAllHashtags(_, _)
FindAllHashtags(text, i) ==
    IF i > Len(text) THEN <<>>
    ELSE IF Char(text, i) = "#" /\ WordEnd(text, i + 1) > i
         THEN <<SubSeq(text, i, WordEnd(text, i + 1))>>
              \o FindAllHashtags(text, WordEnd(text, i + 1) + 1)
         ELSE FindAllHashtags(text, i + 1)

\* the sequences that list every element of S once
RECURSIVE Orderings(_)
Orderings(S) ==
    IF S = {} THEN {<<>>}
    ELSE UNION {{<<x>> \o q : q \in Orderings(S \ {x})} : x \in S}

\* the matches as they come, repeats included: the variant C19 is shown to
\* reject
extractHashtags_NoDedup(text) == {FindAllHashtags(text, 1)}

\* extractHashtags collects the matches in a map and ranges over it: the
\* results it can return, one per order of iteration
extractHashtags(text) ==
    LET matches == FindAllHashtags(text, 1)
    IN  Orderings({matches[i] : i \in 1..Len(matches)})

\* The messages of the model, against a clock that starts at 0 (a ttl of 1 day
\* is 2 units): a tagged message stamped ahead of the clock, a tagged message
\* at two hops, a located message at the end of its ttl, a message whose
\* publisher sent a ttl below 1, and a message at the hop limit.  A ttl of 0
\* is left out: with a timestamp in the future the recency term would convert
\* an infinite float to int, whose result depends on the platform.
MsgA == Msg("hello #oln", <<"#oln">>, 1, 1, 0)
MsgB == Msg("hello #oln", <<"#oln">>, 0, 1, 2)
MsgC == Msg("at 6FG22233+", <<"6FG22233+">>, -2, 1, 0)
MsgE == Msg("hello #oln", <<"#oln">>, 1, -1, 0)
MsgF == Msg("other #other", <<"#other">>, 1, 1, 3)

Msgs == {MsgA, MsgB, MsgC, MsgE, MsgF}

\* message keys a publisher is free to send: empty, or shorter than 8 characters
ShortHashes == {"", "abc1234"}

\* The <<hash, message>> of the model: every message under the hash of its
\* text, one message under the hash of another text, and one under short keys.
Pairs ==
    {<<generateHash(m.Raw), m>> : m \in Msgs}
    \cup {<<generateHash("other #other"), MsgA>>}
    \cup (ShortHashes \X {MsgA})

NoMsg == [none |-> TRUE]
NoHash == "-"

\* A payload on the bus: bytes that are not JSON ("syntax"), JSON whose
\* messages decode but with a field of the wrong type elsewhere ("type"), or
\* a bundle ("ok").  Messages is the set of <<hash, message>> of the payload.
Payload(kind, pairs) == [kind |-> kind, Messages |-> pairs]

\* bundles of two messages
TwoPairs == {{<<generateHash(MsgA.Raw), MsgA>>, <<generateHash(MsgC.Raw), MsgC>>}}

Payloads ==
    {Payload("syntax", {})}
    \cup {Payload("type", {<<generateHash(MsgA.Raw), MsgA>>})}
    \cup {Payload("ok", {})}
    \cup {Payload("ok", {p}) : p \in Pairs}
    \cup {Payload("ok", ps) : ps \in TwoPairs}

\* json.Unmarshal(m.Data, &format): the error and the format as far as filled
Unmarshal(data) ==
    [err |-> data.kind # "ok",
     format |-> [Messages |-> IF data.kind = "syntax" THEN {} ELSE data.Messages]]

\* a callback that goes on past the error of Unmarshal: the variant C6 is
\* shown to reject
ReceiverPairs_ErrUnread(data) == Unmarshal(data).format.Messages

\* the <<hash, msg>> the receiver callback passes to addMessage
ReceiverPairs(data) ==
    LET r == Unmarshal(data)
    IN  IF r.err THEN {} ELSE r.format.Messages

-----------------------------------------------------------------------------
(* What the operator can pass as flags and type. *)

\* the values of --max-cache
MaxCacheSizes == {1, 2}

TagFlags == {"", "#OLN"}
LocationFlags == {"", "6FG22222+"}
TagInputs == {"#OLN"}
LocationInputs == {"6FG22222+"}

\* the locations typed in LockSpec: the same, and a padded code, which
\* ValidatePluscode turns down ('0' is not in base20)
LockLocationInputs == LocationInputs \cup {"6FG22200+"}

\* the values of --auto-pow
AutoPoWFlags == {0, 1}

\* what the operator types to publish: a tagged text, and a text with a repeated
\* tag and two pluscodes of one neighbourhood; as it is (0) or after !pow 2
PublishTexts == {"hi #oln", "#b #a 6FG22233+ 6FG22244+ #a"}
PowBitsInputs == {0, 2}

\* publishMessage: the raw text of the message, the operator's text or its
\* proof-of-work envelope
FinalMessage(messageText, powBits, autoPoWBits, t) ==
    IF powBits > 0 THEN CreatePoWMessage(powBits, "oln", messageText, t)
    ELSE IF autoPoWBits > 0 THEN CreatePoWMessage(autoPoWBits, "oln", messageText, t)
    ELSE messageText

\* chatCommand: a comma-separated flag as a list, each item trimmed, no empty item
RECURSIVE FlagItems(_)
FlagItems(parts) ==
    IF Len(parts) = 0 THEN <<>>
    ELSE LET item == TrimSpace(Head(parts))
         IN  (IF item # "" THEN <<item>> ELSE <<>>) \o FlagItems(Tail(parts))

ParseFlag(flag) == IF flag = "" THEN <<>> ELSE FlagItems(Split(flag, ","))

-----------------------------------------------------------------------------
(* The string functions the cache calls, evaluated once over the strings of *)
(* the model and looked up from then on.                                     *)

Elements(q) == {q[i] : i \in 1..Len(q)}

\* the raw texts this node can publish, and the tags it gives them
PublishRaws ==
    {FinalMessage(text, bits, auto, 0) :
        text \in PublishTexts, bits \in PowBitsInputs, auto \in AutoPoWFlags}
PublishTagStrings ==
    UNION {Elements(FindAllHashtags(raw, 1)) \cup Elements(AllPlustags(raw)) :
            raw \in PublishRaws}

RawTexts == {m.Raw : m \in Msgs} \cup PublishRaws
MsgTagStrings == UNION {Elements(m.Tags) : m \in Msgs} \cup PublishTagStrings

\* every string that can become a hashtag filter, and a location filter
FilterTagStrings == UNION {Elements(ParseFlag(f)) : f \in TagFlags \cup TagInputs}
FilterLocationStrings ==
    UNION {Elements(ParseFlag(f)) : f \in LocationFlags}
    \cup {TrimSpace(v) : v \in LockLocationInputs}

AllPlustagsTable == [text \in RawTexts |-> AllPlustags(text)]

PlustagStrings == UNION {Elements(AllPlustagsTable[text]) : text \in RawTexts}

EqualFoldTable == [a \in FilterTagStrings, b \in MsgTagStrings |-> EqualFold(a, b)]

ContainsTable == [s \in RawTexts, sub \in FilterLocationStrings |-> Contains(s, sub)]

CalculateProximityTable ==
    [a \in PlustagStrings, b \in FilterLocationStrings |-> CalculateProximity(a, b)]

-----------------------------------------------------------------------------
(* cmd/olnnode/chat.go: scoring *)

\* a match that compares tags as they are written: the variant C33 is shown
\* to reject
matchesFilters_CaseSensitive(filters, msg) ==
    \/ \E i \in 1..Len(filters.Hashtags), j \in 1..Len(msg.Tags) :
            filters.Hashtags[i] = msg.Tags[j]
    \/ \E i \in 1..Len(filters.Locations) :
            ContainsTable[msg.Raw, filters.Locations[i]]

matchesFilters(filters, msg) ==
    IF Len(filters.Hashtags) = 0 /\ Len(filters.Locations) = 0 THEN FALSE
    ELSE \/ \E i \in 1..Len(filters.Hashtags), j \in 1..Len(msg.Tags) :
                EqualFoldTable[filters.Hashtags[i], msg.Tags[j]]
         \/ \E i \in 1..Len(filters.Locations) :
                ContainsTable[msg.Raw, filters.Locations[i]]

detectPoW(msgText) ==
    IF Len(Split(msgText, ";")) < 4 THEN 0
    ELSE IF ~ParsePoWMessageOk(msgText) THEN 0
    ELSE ValidatePoW(msgText)

detectPoWTable == [text \in RawTexts |-> detectPoW(text)]

\* time.Duration(msg.TTL) * 24 * time.Hour
ttlDuration(msg) == msg.TTL * DayUnits

\* int((1.0 - float64(age)/float64(ttl)) * 100): the percentage truncated
\* toward zero, but for the ratios of the model at which float64 leaves the
\* product just under a whole number: 1.0 - 0.8 is 0.19999999999999996 and
\* 1.0 - 0.9 is 0.09999999999999998
RemainingPercent(age, ttl) ==
    CASE ttl > 0 /\ age * 10 = ttl * 8 -> 19
      [] ttl > 0 /\ age * 10 = ttl * 9 -> 9
      [] OTHER -> Quot((ttl - age) * 100, ttl)

\* the recency term: int((1.0 - age/ttl) * 100) when age < ttl, else nothing
RecencyScore(msg, t) ==
    LET age == t - msg.Timestamp
        ttl == ttlDuration(msg)
    IN  IF age < ttl THEN RemainingPercent(age, ttl) ELSE 0

calculatePriority(filters, msg, powBits, proximityScore, t) ==
    100
    + (IF matchesFilters(filters, msg) THEN 1000 ELSE 0)
    + proximityScore
    + RecencyScore(msg, t)
    + powBits * 50
    - msg.Hops * 10

\* the largest of a set of naturals, 0 for the empty set
MaxOf(S) == IF S = {} THEN 0 ELSE CHOOSE x \in S : \A y \in S : y <= x

\* a proximity taken against the first location filter alone: the variant
\* C15 is shown to reject
bestProximity_FirstFilter(filters, plustags) ==
    MaxOf({0} \cup {CalculateProximityTable[plustags[i], filters.Locations[j]] :
                        i \in 1..Len(plustags), j \in 1..Min(1, Len(filters.Locations))})

\* the best proximity of the message's locations to the user's, 0 without either
bestProximity(filters, plustags) ==
    MaxOf({0} \cup {CalculateProximityTable[plustags[i], filters.Locations[j]] :
                        i \in 1..Len(plustags), j \in 1..Len(filters.Locations)})

-----------------------------------------------------------------------------
(* cmd/olnnode/chat.go: the cache *)

EmptyCache == [h \in {} |-> NoMsg]

Restrict(cache, keys) == [h \in keys |-> cache[h]]

\* the MessageEntry addMessage builds
NewEntry(filters, hash, msg, t) ==
    LET powBits == detectPoWTable[msg.Raw]
        plustags == AllPlustagsTable[msg.Raw]
        proximityScore == bestProximity(filters, plustags)
    IN  [Hash |-> hash,
         Message |-> msg,
         Priority |-> calculatePriority(filters, msg, powBits, proximityScore, t),
         PoWBits |-> powBits,
         Plustags |-> plustags,
         ProximityScore |-> proximityScore,
         FirstSeen |-> t,
         LastSent |-> t]

\* displayMessage slices hash[:8]: a shorter key is a run-time panic
displayPanics(hash) == Len(hash) < 8

\* a scan that ends with whichever entry the map yields, priorities unread:
\* the variant C2 is shown to reject
LowestCandidates_Any(cache) == DOMAIN cache

\* a scan whose comparison is turned round: the variant C4 is shown to reject
LowestCandidates_Highest(cache) ==
    {h \in DOMAIN cache : \A k \in DOMAIN cache : cache[h].Priority >= cache[k].Priority}

\* the entries the scan of evictLowestPriority can end with as lowest: the map
\* is ranged over in any order and a later entry replaces only a higher one
LowestCandidates(cache) ==
    {h \in DOMAIN cache : \A k \in DOMAIN cache : cache[h].Priority <= cache[k].Priority}

\* the caches evictLowestPriority can leave
evictLowestPriority(cache) ==
    IF DOMAIN cache = {} THEN {cache}
    ELSE {IF lowestHash # "" THEN Restrict(cache, DOMAIN cache \ {lowestHash}) ELSE cache :
            lowestHash \in LowestCandidates(cache)}

\* a bound that lets the cache grow one past max_cache_size: the variant C1
\* is shown to reject
CacheIsFull_OneMore(cache, maxSize) == Cardinality(DOMAIN cache) > maxSize + 1

\* cache is over its bound after an insert
CacheIsFull(cache, maxSize) == Cardinality(DOMAIN cache) > maxSize

\* addMessage without its look-up of the hash: the variant C3 is shown to reject
addMessage_NoLookup(cache, filters, maxSize, hash, msg, t) ==
    LET entry == NewEntry(filters, hash, msg, t)
        c1 == [h \in DOMAIN cache \cup {hash} |-> IF h = hash THEN entry ELSE cache[h]]
    IN  IF displayPanics(hash)
        THEN {[Cache |-> c1, inserted |-> TRUE, panicked |-> TRUE, evicted |-> {}]}
        ELSE IF CacheIsFull(c1, maxSize)
             THEN {[Cache |-> c2, inserted |-> TRUE, panicked |-> FALSE,
                    evicted |-> {[hash |-> h, priority |-> c1[h].Priority] :
                                   h \in DOMAIN c1 \ DOMAIN c2}] :
                       c2 \in evictLowestPriority(c1)}
             ELSE {[Cache |-> c1, inserted |-> TRUE, panicked |-> FALSE, evicted |-> {}]}

\* an ingest that turns away a message that is past its ttl or at the hop
\* limit: the variant C39 is shown to reject
addMessage_FreshOnly(cache, filters, maxSize, hash, msg, t) ==
    IF hash \in DOMAIN cache \/ t - msg.Timestamp > ttlDuration(msg) \/ msg.Hops >= maxHops
    THEN {[Cache |-> cache, inserted |-> FALSE, panicked |-> FALSE, evicted |-> {}]}
    ELSE addMessage_NoLookup(cache, filters, maxSize, hash, msg, t)

\* the outcomes of addMessage: the cache it leaves, whether it inserted and
\* displayed the message, whether displayMessage panicked, and what it evicted
addMessage(cache, filters, maxSize, hash, msg, t) ==
    IF hash \in DOMAIN cache
    THEN {[Cache |-> cache, inserted |-> FALSE, panicked |-> FALSE, evicted |-> {}]}
    ELSE LET entry == NewEntry(filters, hash, msg, t)
             c1 == [h \in DOMAIN cache \cup {hash} |->
                        IF h = hash THEN entry ELSE cache[h]]
         IN  IF displayPanics(hash)
             THEN {[Cache |-> c1, inserted |-> TRUE, panicked |-> TRUE, evicted |-> {}]}
             ELSE IF CacheIsFull(c1, maxSize)
                  THEN {[Cache |-> c2, inserted |-> TRUE, panicked |-> FALSE,
                         evicted |-> {[hash |-> h, priority |-> c1[h].Priority] :
                                        h \in DOMAIN c1 \ DOMAIN c2}] :
                            c2 \in evictLowestPriority(c1)}
                  ELSE {[Cache |-> c1, inserted |-> TRUE, panicked |-> FALSE, evicted |-> {}]}

\* a scan that does not read the hop count: the variant C7 is shown to reject
ShouldRebroadcast_NoHopLimit(entry, t) ==
    LET msg == entry.Message
        age == t - msg.Timestamp
    IN  /\ ~(age > ttlDuration(msg))
        /\ ~(age > Quot(ttlDuration(msg), 2))

\* rebroadcastMessages sends this entry at time t
ShouldRebroadcast(entry, t) ==
    LET msg == entry.Message
        age == t - msg.Timestamp
    IN  /\ ~(msg.Hops >= maxHops)
        /\ ~(age > ttlDuration(msg))
        /\ ~(age > Quot(ttlDuration(msg), 2))

\* a rebroadcast that stamps the entry as first seen now: the variant C35 is
\* shown to reject
RebroadcastEntry_Restamped(entry, t) == [entry EXCEPT !.LastSent = t, !.FirstSeen = t]

\* the entry as rebroadcastMessages leaves it in the cache: msg is a copy of
\* entry.Message, so msg.Hops++ changes the copy and the entry keeps its hops
RebroadcastEntry(entry, t) == [entry EXCEPT !.LastSent = t]

\* the message of the bundle a rebroadcast publishes
RebroadcastMsg(entry) == [entry.Message EXCEPT !.Hops = @ + 1]

\* make(map[string][]string)
EmptyIndex == [key \in {} |-> <<>>]

\* olnjson.Format with one message
Bundle(hash, msg, index) ==
    [Server |-> [Link |-> "oln.local", Name |-> "OLN Node", PubKey |-> "", AcceptPush |-> TRUE],
     Messages |-> {<<hash, msg>>},
     Index |-> index,
     Feeds |-> <<>>,
     Push |-> <<>>]

rebroadcastMessages(cache, t) ==
    [Cache |-> [h \in DOMAIN cache |->
                    IF ShouldRebroadcast(cache[h], t)
                    THEN RebroadcastEntry(cache[h], t) ELSE cache[h]],
     Published |-> {Bundle(h, RebroadcastMsg(cache[h]), EmptyIndex) :
                        h \in {k \in DOMAIN cache : ShouldRebroadcast(cache[k], t)}}]

\* format.Index[key] = append(format.Index[key], hash)
IndexAppend(index, key, hash) ==
    IF key \in DOMAIN index THEN [index EXCEPT ![key] = Append(@, hash)]
    ELSE index @@ (key :> <<hash>>)

\* the appends of a loop over keys
RECURSIVE IndexAppendAll(_, _, _)
IndexAppendAll(index, keys, hash) ==
    IF Len(keys) = 0 THEN index
    ELSE IndexAppendAll(IndexAppend(index, Head(keys), hash), Tail(keys), hash)

\* the parents of every plustag, in the order the nested loops visit them
RECURSIVE ParentsOfAll(_)
ParentsOfAll(plustags) ==
    IF Len(plustags) = 0 THEN <<>>
    ELSE GetParentPlustags(Head(plustags)) \o ParentsOfAll(Tail(plustags))

\* publishMessage up to json.Marshal: the formats it can build, one per order
\* in which extractHashtags returns the tags
PublishFormats(messageText, powBits, autoPoWBits, t) ==
    LET finalMessage == FinalMessage(messageText, powBits, autoPoWBits, t)
        msgHash == generateHash(finalMessage)
        plustags == AllPlustags(finalMessage)
    IN  {Bundle(msgHash,
                Msg(finalMessage, tags \o plustags, t, ttlDays, 0),
                IndexAppendAll(IndexAppendAll(EmptyIndex, tags, msgHash),
                               ParentsOfAll(plustags), msgHash)) :
            tags \in extractHashtags(finalMessage)}

PublishFormatsTable ==
    [text \in PublishTexts, bits \in PowBitsInputs, auto \in AutoPoWFlags |->
        PublishFormats(text, bits, auto, 0)]

\* a publish that files the node's own message in its cache on the spot: the
\* variant C18 is shown to reject
publishMessage_Caching(cache, filters, messageText, powBits, autoPoWBits, sendErr) ==
    {LET pair == CHOOSE p \in format.Messages : TRUE
     IN  [Cache |-> (pair[1] :> NewEntry(filters, pair[1], pair[2], 0)) @@ cache,
          Filters |-> filters,
          hash |-> pair[1],
          Published |-> IF sendErr THEN {} ELSE {format}] :
        format \in PublishFormatsTable[messageText, powBits, autoPoWBits]}

\* publishMessage: what it leaves of the cache and the filters, and what it
\* puts on the bus when NC.Publish returns sendErr
publishMessage(cache, filters, messageText, powBits, autoPoWBits, sendErr) ==
    {[Cache |-> cache,
      Filters |-> filters,
      hash |-> CHOOSE h \in {p[1] : p \in format.Messages} : TRUE,
      Published |-> IF sendErr THEN {} ELSE {format}] :
        format \in PublishFormatsTable[messageText, powBits, autoPoWBits]}

\* a sweep whose comparison is turned round, so that it passes over the
\* entries older than their ttl: the variant C11 is shown to reject
IsExpired_Younger(entry, t) ==
    (t - entry.Message.Timestamp) < ttlDuration(entry.Message)

\* a sweep that already deletes at age = ttl: the variant C10 is shown to reject
IsExpired_AtTTL(entry, t) ==
    (t - entry.Message.Timestamp) >= ttlDuration(entry.Message)

\* cleanupExpired deletes this entry at time t
IsExpired(entry, t) ==
    (t - entry.Message.Timestamp) > ttlDuration(entry.Message)

cleanupExpired(cache, t) ==
    Restrict(cache, {h \in DOMAIN cache : ~IsExpired(cache[h], t)})

clearCache(cache) == EmptyCache

\* a recomputation that goes on to evict once the cache holds two entries:
\* the variant C13 is shown to reject
recalculatePriorities_Evicting(cache, filters, t) ==
    LET c == [h \in DOMAIN cache |->
                LET proximityScore == bestProximity(filters, cache[h].Plustags)
                IN  [cache[h] EXCEPT
                        !.ProximityScore = proximityScore,
                        !.Priority = calculatePriority(filters, cache[h].Message,
                                                       cache[h].PoWBits, proximityScore, t)]]
    IN  IF Cardinality(DOMAIN c) < 2 THEN c
        ELSE Restrict(c, DOMAIN c \ {CHOOSE h \in LowestCandidates(c) : TRUE})

recalculatePriorities(cache, filters, t) ==
    [h \in DOMAIN cache |->
        LET proximityScore == bestProximity(filters, cache[h].Plustags)
        IN  [cache[h] EXCEPT
                !.ProximityScore = proximityScore,
                !.Priority = calculatePriority(filters, cache[h].Message,
                                               cache[h].PoWBits, proximityScore, t)]]

-----------------------------------------------------------------------------
(* cmd/olnnode/chat.go: filter mutation.  Each returns the filters it leaves *)
(* and whether it went on to recalculatePriorities.                          *)

\* the tags of parts, trimmed, appended to hashtags unless empty or present
RECURSIVE AppendTags(_, _)
AppendTags(hashtags, parts) ==
    IF Len(parts) = 0 THEN hashtags
    ELSE LET tag == TrimSpace(Head(parts))
         IN  AppendTags(IF tag # "" THEN AppendNew(hashtags, tag) ELSE hashtags,
                        Tail(parts))

addHashtagFilter(filters, tags) ==
    [Filters |-> [filters EXCEPT !.Hashtags = AppendTags(@, Split(tags, ","))],
     recalculated |-> TRUE]

\* q without its element at position i
RemoveAt(q, i) == SubSeq(q, 1, i - 1) \o SubSeq(q, i + 1, Len(q))

removeHashtagFilter(filters, tag) ==
    IF InSeq(tag, filters.Hashtags)
    THEN LET i == CHOOSE j \in 1..Len(filters.Hashtags) :
                    /\ filters.Hashtags[j] = tag
                    /\ \A k \in 1..(j - 1) : filters.Hashtags[k] # tag
         IN  [Filters |-> [filters EXCEPT !.Hashtags = RemoveAt(@, i)],
              recalculated |-> TRUE]
    ELSE [Filters |-> filters, recalculated |-> FALSE]

addLocationFilter(filters, input) ==
    LET locationCode == TrimSpace(input)
    IN  IF InSeq(locationCode, filters.Locations)
        THEN [Filters |-> filters, recalculated |-> FALSE]
        ELSE [Filters |-> [filters EXCEPT !.Locations = Append(@, locationCode)],
              recalculated |-> TRUE]

removeLocationFilter(filters) ==
    IF Len(filters.Locations) = 0
    THEN [Filters |-> filters, recalculated |-> FALSE]
    ELSE [Filters |-> [filters EXCEPT !.Locations = <<>>], recalculated |-> TRUE]

\* a clear that leaves the location filters: the variant C14 is shown to reject
clearFilters_TagsOnly(filters) ==
    [Filters |-> [filters EXCEPT !.Hashtags = <<>>], recalculated |-> TRUE]

clearFilters(filters) ==
    [Filters |-> [Hashtags |-> <<>>, Locations |-> <<>>], recalculated |-> TRUE]

-----------------------------------------------------------------------------
(* The state machine. *)

Op(name, kind, hash, inserted, removed) ==
    [name |-> name, kind |-> kind, hash |-> hash,
     inserted |-> inserted, removed |-> removed]

PlainOp(name, removed) == Op(name, "-", NoHash, FALSE, removed)

\* the entries of cache that are not in after, each as its hash and priority
Gone(cache, after) ==
    {[hash |-> h, priority |-> cache[h].Priority] : h \in DOMAIN cache \ DOMAIN after}

\* the goroutines of chatCommand
Threads == {"receiver", "rebroadcast", "cleanup", "operator"}

\* thread t moves to label
Goto(t, label) == pc' = [pc EXCEPT ![t] = label]

\* no library call
NoCall == [fn |-> "-", args |-> <<>>, from |-> <<>>, done |-> FALSE, result |-> "-"]

\* no call in progress
NoArg == [name |-> "-", value |-> "-"]

\* chatCommand's state, --tag being one of tagFlags, whatever --auto-pow is
StartedWith(tagFlags) ==
    /\ Cache = EmptyCache
    /\ \E tags \in tagFlags, locations \in LocationFlags :
            Filters = [Hashtags |-> ParseFlag(tags), Locations |-> ParseFlag(locations)]
    /\ MaxCacheSize \in MaxCacheSizes
    /\ now = 0
    /\ alive = TRUE
    /\ rxPending = {}
    /\ op = PlainOp("chatCommand", {})
    /\ emitted = {}
    /\ seen = {}
    /\ sends = EmptyCache
    /\ mu = [writer |-> "-", readers |-> {}]
    /\ pc = [t \in Threads |-> "idle"]
    /\ arg = NoArg
    /\ stopChan = "open"
    /\ call = NoCall

Started == StartedWith(TagFlags)

\* --auto-pow left at its default
Init == Started /\ AutoPoWBits = 0

\* the receiver callback hands one message of the bundle to addMessage
\* A panic in the callback's goroutine is not recovered: the process ends and
\* its memory with it.
AddStep(kind, hash, msg, rest) ==
    \E r \in addMessage(Cache, Filters, MaxCacheSize, hash, msg, now) :
        /\ alive' = ~r.panicked
        /\ emitted' = {}
        /\ IF r.panicked
           THEN /\ Cache' = EmptyCache
                /\ rxPending' = {}
                /\ op' = Op("messageReceiver", kind, hash, r.inserted, {})
                /\ seen' = {}
                /\ sends' = EmptyCache
           ELSE /\ Cache' = r.Cache
                /\ rxPending' = rest
                /\ op' = Op("messageReceiver", kind, hash, r.inserted, r.evicted)
                /\ seen' = IF r.inserted THEN seen \cup {hash} ELSE seen
                /\ sends' = [h \in DOMAIN r.Cache |->
                                IF h = hash /\ r.inserted THEN 0 ELSE sends[h]]
        /\ UNCHANGED <<Filters, MaxCacheSize, now, mu, pc, arg, AutoPoWBits, stopChan, call>>

\* the bus delivers a payload: the callback parses it and starts on its messages
Receive(data) ==
    /\ alive
    /\ rxPending = {}
    /\ LET pairs == ReceiverPairs(data)
       IN  IF pairs = {}
           THEN /\ op' = Op("messageReceiver", data.kind, NoHash, FALSE, {})
                /\ emitted' = {}
                /\ UNCHANGED <<Cache, Filters, MaxCacheSize, now, alive, rxPending, seen, sends, mu, pc, arg, AutoPoWBits, stopChan, call>>
           ELSE \E p \in pairs : AddStep(data.kind, p[1], p[2], pairs \ {p})

\* the callback goes on to the next message of the bundle in hand
ContinueReceive ==
    /\ alive
    /\ rxPending # {}
    /\ \E p \in rxPending : AddStep("ok", p[1], p[2], rxPending \ {p})

\* the rebroadcast ticker fires
Rebroadcast ==
    /\ alive
    /\ LET r == rebroadcastMessages(Cache, now)
           sent == {h \in DOMAIN Cache : \E b \in r.Published : \E p \in b.Messages : p[1] = h}
       IN  /\ Cache' = r.Cache
           /\ emitted' = r.Published
           /\ sends' = [h \in DOMAIN Cache |->
                            IF h \in sent THEN Min(sends[h] + 1, MaxSends) ELSE sends[h]]
           /\ op' = PlainOp("rebroadcastMessages", {})
    /\ UNCHANGED <<Filters, MaxCacheSize, now, alive, rxPending, seen, mu, pc, arg, AutoPoWBits, stopChan, call>>

\* the cleanup ticker fires
Cleanup ==
    /\ alive
    /\ Cache' = cleanupExpired(Cache, now)
    /\ sends' = Restrict(sends, DOMAIN Cache')
    /\ op' = PlainOp("cleanupExpired", Gone(Cache, Cache'))
    /\ emitted' = {}
    /\ UNCHANGED <<Filters, MaxCacheSize, now, alive, rxPending, seen, mu, pc, arg, AutoPoWBits, stopChan, call>>

\* the operator types !clear
ClearCache ==
    /\ alive
    /\ Cache' = clearCache(Cache)
    /\ sends' = EmptyCache
    /\ op' = PlainOp("clearCache", Gone(Cache, Cache'))
    /\ emitted' = {}
    /\ UNCHANGED <<Filters, MaxCacheSize, now, alive, rxPending, seen, mu, pc, arg, AutoPoWBits, stopChan, call>>

\* a filter command: r is what the mutator returns
FilterStep(name, r) ==
    /\ alive
    /\ Filters' = r.Filters
    /\ Cache' = IF r.recalculated THEN recalculatePriorities(Cache, r.Filters, now) ELSE Cache
    /\ op' = PlainOp(name, {})
    /\ emitted' = {}
    /\ UNCHANGED <<MaxCacheSize, now, alive, rxPending, seen, sends, mu, pc, arg, AutoPoWBits, stopChan, call>>

AddHashtagFilter == \E v \in TagInputs : FilterStep("addHashtagFilter", addHashtagFilter(Filters, v))

RemoveHashtagFilter ==
    \E v \in TagInputs : FilterStep("removeHashtagFilter", removeHashtagFilter(Filters, v))

AddLocationFilter ==
    \E v \in LocationInputs : FilterStep("addLocationFilter", addLocationFilter(Filters, v))

RemoveLocationFilter == FilterStep("removeLocationFilter", removeLocationFilter(Filters))

ClearFilters == FilterStep("clearFilters", clearFilters(Filters))

\* time passes
Tick ==
    /\ alive
    /\ now < MaxTime
    /\ now' = now + 1
    /\ op' = PlainOp("tick", {})
    /\ emitted' = {}
    /\ UNCHANGED <<Cache, Filters, MaxCacheSize, alive, rxPending, seen, sends, mu, pc, arg, AutoPoWBits, stopChan, call>>

\* the operator types a text, or !pow and a text; the clock is at its start
Publish ==
    /\ alive
    /\ now = 0
    /\ \E text \in PublishTexts, bits \in PowBitsInputs, sendErr \in BOOLEAN :
        \E r \in publishMessage(Cache, Filters, text, bits, AutoPoWBits, sendErr) :
            /\ Cache' = r.Cache
            /\ Filters' = r.Filters
            /\ sends' = [h \in DOMAIN r.Cache |-> IF h \in DOMAIN sends THEN sends[h] ELSE 0]
            /\ emitted' = r.Published
            /\ op' = Op("publishMessage", IF sendErr THEN "error" ELSE "ok", r.hash, FALSE, {})
            /\ arg' = [name |-> IF bits > 0 THEN "!pow" ELSE "publish", value |-> text]
    /\ UNCHANGED <<MaxCacheSize, now, alive, rxPending, seen, mu, pc, AutoPoWBits, stopChan, call>>

\* the bus delivers the bundle this node has just published back to it
Echo ==
    /\ op.name = "publishMessage"
    /\ \E format \in emitted : Receive(Payload("ok", format.Messages))

Next ==
    \/ \E data \in Payloads : Receive(data)
    \/ ContinueReceive
    \/ Rebroadcast
    \/ Cleanup
    \/ ClearCache
    \/ AddHashtagFilter
    \/ RemoveHashtagFilter
    \/ AddLocationFilter
    \/ RemoveLocationFilter
    \/ ClearFilters
    \/ Tick

Spec == Init /\ [][Next]_vars

\* The receiver, the sweep and the clock on their own: the tasks that decide
\* which entries are cached and how old they are.
SweepNext ==
    \/ \E data \in Payloads : Receive(data)
    \/ ContinueReceive
    \/ Cleanup
    \/ Tick

\* cleanupLoop's ticker fires every minute for as long as the process runs
SweepSpec == Init /\ [][SweepNext]_vars /\ WF_vars(Cleanup)

\* The operator publishing and the receiver, under either setting of
\* --auto-pow; the clock stands still.
PublishInit == Started /\ AutoPoWBits \in AutoPoWFlags

PublishNext ==
    \/ \E data \in Payloads : Receive(data)
    \/ ContinueReceive
    \/ Publish
    \/ Echo

PublishSpec == PublishInit /\ [][PublishNext]_vars

-----------------------------------------------------------------------------
(* !list: the operator asks for the cache in order of priority.              *)

\* strconv.Atoi: an optional sign and decimal digits, nothing else
RECURSIVE DigitsValue(_, _)
DigitsValue(digits, acc) ==
    IF digits = "" THEN acc
    ELSE DigitsValue(SubSeq(digits, 2, Len(digits)),
                     acc * 10 + IndexFrom("0123456789", Char(digits, 1), 1) - 1)

Atoi(str) ==
    LET signed == Len(str) >= 1 /\ (Char(str, 1) = "+" \/ Char(str, 1) = "-")
        digits == IF signed THEN SubSeq(str, 2, Len(str)) ELSE str
        err == \/ digits = ""
               \/ \E k \in 1..Len(digits) : IndexFrom("0123456789", Char(digits, k), 1) = 0
    IN  [err |-> err,
         num |-> IF err THEN 0
                 ELSE IF signed /\ Char(str, 1) = "-" THEN -DigitsValue(digits, 0)
                 ELSE DigitsValue(digits, 0)]

\* a list cut to its first entry whatever the limit
ListLimit_One(args, limit) == 1

\* listMessages: the limit its loop over the arguments ends with
RECURSIVE ListLimit(_, _)
ListLimit(args, limit) ==
    IF Len(args) = 0 THEN limit
    ELSE LET r == Atoi(Head(args))
         IN  ListLimit(Tail(args),
                       IF Head(args) # "full" /\ ~r.err /\ r.num > 0 THEN r.num ELSE limit)

\* what listMessages can print: the rows in the order sort.Slice can leave
\* them (entries of equal priority in any order), cut to the limit; the row
\* of a key shorter than 8 characters is a run-time panic (hash[:8])
listMessages(cache, args) ==
    IF DOMAIN cache = {} THEN {[shown |-> <<>>, panicked |-> FALSE]}
    ELSE LET limit == ListLimit(args, 0)
             sorted == {q \in Orderings(DOMAIN cache) :
                            \A i \in 1..(Len(q) - 1) :
                                cache[q[i]].Priority >= cache[q[i + 1]].Priority}
             n == IF limit > 0 /\ limit < Cardinality(DOMAIN cache)
                  THEN limit ELSE Cardinality(DOMAIN cache)
         IN  {[shown |-> [i \in 1..n |-> [hash |-> q[i], priority |-> cache[q[i]].Priority]],
               panicked |-> \E i \in 1..n : Len(q[i]) < 8] : q \in sorted}

\* fresh messages with the default ttl of 7 days: one tagged #oln, one tagged
\* #other
MsgG == Msg("hello #oln", <<"#oln">>, 0, ttlDays, 0)
MsgH == Msg("other #other", <<"#other">>, 0, ttlDays, 0)

\* a message with a ttl of 5 days, stamped 4 days before the clock starts
MsgK == Msg("hello #oln", <<"#oln">>, -8, 5, 0)

ListPayloads ==
    {Payload("ok", {<<generateHash(m.Raw), m>>}) : m \in {MsgG, MsgH, MsgK}}

\* what follows !list: nothing, full, a count, a count and full, something else
ListArgs == {<<>>, <<"full">>, <<"1">>, <<"3">>, <<"0">>, <<"-1">>, <<"1", "full">>, <<"x">>}

ListDeliver == \E data \in ListPayloads : Receive(data)

\* the operator types !list
List ==
    /\ alive
    /\ \E args \in ListArgs : \E r \in listMessages(Cache, args) :
        /\ call' = [fn |-> "listMessages", args |-> args, from |-> <<>>, done |-> TRUE,
                    result |-> r.shown]
        /\ alive' = ~r.panicked
        /\ IF r.panicked
           THEN Cache' = EmptyCache /\ seen' = {} /\ sends' = EmptyCache
           ELSE UNCHANGED <<Cache, seen, sends>>
    /\ op' = PlainOp("listMessages", {})
    /\ emitted' = {}
    /\ UNCHANGED <<Filters, MaxCacheSize, now, rxPending, mu, pc, arg, AutoPoWBits, stopChan>>

\* --tag as the operator can pass it here: also with one tag twice
ListTagFlags == TagFlags \cup {"#OLN,#OLN"}

ListInit == StartedWith(ListTagFlags) /\ AutoPoWBits = 0

ListNext ==
    \/ ListDeliver
    \/ AddHashtagFilter
    \/ RemoveHashtagFilter
    \/ ClearFilters
    \/ Tick
    \/ List

ListSpec == ListInit /\ [][ListNext]_vars

-----------------------------------------------------------------------------
(* The libraries on their own: a call is drawn, then made.  An envelope that *)
(* CreatePoWMessage has returned can be passed on to ParsePoWMessage and to  *)
(* ValidatePoW; such a call keeps the arguments the envelope was made from.  *)

LibKeywords == {"oln", "a;b", "5%"}
LibMessages == {"hi", "hi #oln"}

\* strings that are not envelopes: no field separator, a third field that is
\* not base64, too few fields
LibStrings == {"other #other", "1;2;aGk;k", "a;b;c"}

\* pluscodes and near misses: with and without suffix, sharing 0, 2, 5, 6 and
\* 8 leading characters, zero-padded, short, without "+", with a long suffix,
\* with a letter outside the alphabet, with a leading space, with two "+"
LibCodes ==
    {"6FG22222+", "6FG22299+", "6FG22999+", "6FH22222+", "6FG22222+22", "6FG22222+2",
     "7FG22222+", "6FG22200+", "00000000+", "6FG2222+", "6FG22222", "6FG22222+222",
     "6FG2222A+", " 6FG22222+", "6FG22222+2+"}

Pending(fn, args) == [fn |-> fn, args |-> args, from |-> <<>>, done |-> FALSE, result |-> "-"]

LibCalls ==
    {Pending("CreatePoWMessage", <<bits, keyword, message>>) :
        bits \in 0..MaxBits, keyword \in LibKeywords, message \in LibMessages}
    \cup {Pending(fn, <<str>>) : fn \in {"ParsePoWMessage", "ValidatePoW"}, str \in LibStrings}
    \cup {Pending(fn, <<code>>) : fn \in {"ValidatePluscode", "GetParentPlustags"},
                                    code \in LibCodes}
    \cup {Pending("CalculateProximity", <<a, b>>) : a \in LibCodes, b \in LibCodes}

\* what the function returns, called at the start of the clock
LibResult(fn, args) ==
    CASE fn = "CreatePoWMessage" -> CreatePoWMessage(args[1], args[2], args[3], 0)
      [] fn = "ParsePoWMessage" -> ParsePoWMessage(args[1])
      [] fn = "ValidatePoW" -> ValidatePoW(args[1])
      [] fn = "ValidatePluscode" -> ValidatePluscode(args[1])
      [] fn = "GetParentPlustags" -> GetParentPlustags(args[1])
      [] fn = "CalculateProximity" -> CalculateProximity(args[1], args[2])

LibFrame ==
    UNCHANGED <<Cache, Filters, MaxCacheSize, now, alive, rxPending, op, emitted, seen, sends,
                mu, pc, arg, AutoPoWBits, stopChan>>

LibInit ==
    /\ Cache = EmptyCache
    /\ Filters = [Hashtags |-> <<>>, Locations |-> <<>>]
    /\ MaxCacheSize = 1
    /\ now = 0
    /\ alive = TRUE
    /\ rxPending = {}
    /\ op = PlainOp("-", {})
    /\ emitted = {}
    /\ seen = {}
    /\ sends = EmptyCache
    /\ mu = [writer |-> "-", readers |-> {}]
    /\ pc = [t \in Threads |-> "idle"]
    /\ arg = NoArg
    /\ AutoPoWBits = 0
    /\ stopChan = "open"
    /\ call \in LibCalls

\* the call is made
Apply ==
    /\ ~call.done
    /\ call' = [call EXCEPT !.done = TRUE, !.result = LibResult(call.fn, call.args)]
    /\ LibFrame

\* the envelope just made is passed to fn
PassOn(fn) ==
    /\ call.done
    /\ call.fn = "CreatePoWMessage"
    /\ call' = [fn |-> fn, args |-> <<call.result>>, from |-> call.args, done |-> TRUE,
                result |-> LibResult(fn, <<call.result>>)]
    /\ LibFrame

ParseEnvelope == PassOn("ParsePoWMessage")

ValidateEnvelope == PassOn("ValidatePoW")

LibNext ==
    \/ Apply
    \/ ParseEnvelope
    \/ ValidateEnvelope

LibSpec == LibInit /\ [][LibNext]_vars

-----------------------------------------------------------------------------
(* Shutdown.  A goroutine is "idle" while it waits in its loop and           *)
(* "returned" when its function has returned; the operator's goroutine is    *)
(* "ended" between the return of handleInput and close(stopChan).            *)

\* what the bus delivers in ShutdownSpec: a message, and one under a short key
ShutdownPayloads ==
    {Payload("ok", {<<generateHash(MsgA.Raw), MsgA>>}), Payload("ok", {<<"abc1234", MsgA>>})}

\* goroutine t moves from label from to label to, and nothing else changes
Step(t, from, to) ==
    /\ alive
    /\ pc[t] = from
    /\ Goto(t, to)
    /\ UNCHANGED <<Cache, Filters, MaxCacheSize, now, alive, rxPending, op, emitted, seen,
                   sends, mu, arg, AutoPoWBits, stopChan, call>>

\* the subscription is in place until messageReceiver returns (sub.Unsubscribe)
Deliver ==
    /\ pc["receiver"] = "idle"
    /\ \E data \in ShutdownPayloads : Receive(data)

\* messageReceiver: <-s.stopChan
RxReturn == stopChan = "closed" /\ Step("receiver", "idle", "returned")

\* rebroadcastLoop: the select takes either case that is ready
RbTick == pc["rebroadcast"] = "idle" /\ Rebroadcast

RbReturn == stopChan = "closed" /\ Step("rebroadcast", "idle", "returned")

\* cleanupLoop: the same select
ClTick == pc["cleanup"] = "idle" /\ Cleanup

ClReturn == stopChan = "closed" /\ Step("cleanup", "idle", "returned")

\* handleInput: scanner.Scan() returns false, the loop ends
EndInput == Step("operator", "idle", "ended")

\* chatCommand: close(state.stopChan), and return
CloseStop ==
    /\ alive
    /\ pc["operator"] = "ended"
    /\ stopChan' = "closed"
    /\ Goto("operator", "returned")
    /\ UNCHANGED <<Cache, Filters, MaxCacheSize, now, alive, rxPending, op, emitted, seen,
                   sends, mu, arg, AutoPoWBits, call>>

ShutdownNext ==
    \/ Deliver
    \/ RxReturn
    \/ RbTick
    \/ RbReturn
    \/ ClTick
    \/ ClReturn
    \/ EndInput
    \/ CloseStop

\* every goroutine that can run does run, and a ticker fires only now and
\* then, so a select whose stop case is ready takes it in the end
ShutdownSpec ==
    Init /\ [][ShutdownNext]_vars
    /\ WF_vars(RxReturn) /\ WF_vars(RbReturn) /\ WF_vars(ClReturn)

-----------------------------------------------------------------------------
(* The handlers step by step on the state lock.  A handler acquires         *)
(* ChatState.mu, runs its body and releases it on return (defer); the clock *)
(* stands still.                                                            *)

\* mu.Lock() returns when there is no writer and no reader
CanLock(m) == m.writer = "-" /\ m.readers = {}

\* mu.RLock() returns when there is no writer
CanRLock(m) == m.writer = "-"

\* what the Spec-level variables do in LockSpec
LockFrame ==
    UNCHANGED <<MaxCacheSize, AutoPoWBits, stopChan, call, now, rxPending, op, emitted, seen,
                sends>>

\* the filter commands the operator can type
FilterCmds ==
    {[name |-> "addHashtagFilter", value |-> v] : v \in TagInputs}
    \cup {[name |-> "removeHashtagFilter", value |-> v] : v \in TagInputs}
    \cup {[name |-> "addLocationFilter", value |-> v] : v \in LockLocationInputs}
    \cup {[name |-> "removeLocationFilter", value |-> "-"], [name |-> "clearFilters", value |-> "-"]}

\* what the mutator of cmd does to the filters
FilterResult(cmd, filters) ==
    CASE cmd.name = "addHashtagFilter" -> addHashtagFilter(filters, cmd.value)
      [] cmd.name = "removeHashtagFilter" -> removeHashtagFilter(filters, cmd.value)
      [] cmd.name = "addLocationFilter" -> addLocationFilter(filters, cmd.value)
      [] cmd.name = "removeLocationFilter" -> removeLocationFilter(filters)
      [] cmd.name = "clearFilters" -> clearFilters(filters)

\* a mutator that gives the lock back before the entries are recomputed: the
\* variant C12 is shown to reject
MuAfterMutate_Released(m) == [m EXCEPT !.writer = "-"]

\* the lock once a mutator has written the filters: Unlock is deferred, so
\* it is still held when recalculatePriorities runs
MuAfterMutate(m) == m

\* the receiver callback enters addMessage
RxLock ==
    /\ alive
    /\ pc["receiver"] = "idle"
    /\ CanLock(mu)
    /\ mu' = [mu EXCEPT !.writer = "receiver"]
    /\ Goto("receiver", "addMessage")
    /\ UNCHANGED <<Cache, Filters, alive, arg>>
    /\ LockFrame

\* the body of addMessage; a panic in it ends the process
RxBody ==
    /\ alive
    /\ pc["receiver"] = "addMessage"
    /\ \E p \in Pairs :
        \E r \in addMessage(Cache, Filters, MaxCacheSize, p[1], p[2], now) :
            /\ alive' = ~r.panicked
            /\ IF r.panicked
               THEN /\ Cache' = EmptyCache
                    /\ mu' = [writer |-> "-", readers |-> {}]
                    /\ pc' = [t \in Threads |-> "idle"]
                    /\ arg' = NoArg
               ELSE /\ Cache' = r.Cache
                    /\ Goto("receiver", "unlock")
                    /\ UNCHANGED <<mu, arg>>
    /\ UNCHANGED Filters
    /\ LockFrame

RxUnlock ==
    /\ alive
    /\ pc["receiver"] = "unlock"
    /\ mu' = [mu EXCEPT !.writer = "-"]
    /\ Goto("receiver", "idle")
    /\ UNCHANGED <<Cache, Filters, alive, arg>>
    /\ LockFrame

\* the operator's goroutine enters a filter mutator
OpLock ==
    /\ alive
    /\ pc["operator"] = "idle"
    /\ CanLock(mu)
    /\ mu' = [mu EXCEPT !.writer = "operator"]
    /\ \E cmd \in FilterCmds : arg' = cmd
    /\ Goto("operator", "mutate")
    /\ UNCHANGED <<Cache, Filters, alive>>
    /\ LockFrame

\* the mutator writes s.Filters
OpMutate ==
    /\ alive
    /\ pc["operator"] = "mutate"
    /\ LET r == FilterResult(arg, Filters)
       IN  /\ Filters' = r.Filters
           /\ Goto("operator", IF r.recalculated THEN "recalculatePriorities" ELSE "unlock")
    /\ mu' = MuAfterMutate(mu)
    /\ UNCHANGED <<Cache, alive, arg>>
    /\ LockFrame

\* the mutator calls recalculatePriorities
OpRecalc ==
    /\ alive
    /\ pc["operator"] = "recalculatePriorities"
    /\ Cache' = recalculatePriorities(Cache, Filters, now)
    /\ Goto("operator", "unlock")
    /\ UNCHANGED <<Filters, alive, mu, arg>>
    /\ LockFrame

OpUnlock ==
    /\ alive
    /\ pc["operator"] = "unlock"
    /\ mu' = [mu EXCEPT !.writer = "-"]
    /\ Goto("operator", "idle")
    /\ UNCHANGED <<Cache, Filters, alive, arg>>
    /\ LockFrame

\* the operator's goroutine enters a query: list, search, show, stats, filters
OpRLock ==
    /\ alive
    /\ pc["operator"] = "idle"
    /\ CanRLock(mu)
    /\ mu' = [mu EXCEPT !.readers = @ \cup {"operator"}]
    /\ Goto("operator", "query")
    /\ UNCHANGED <<Cache, Filters, alive, arg>>
    /\ LockFrame

OpRUnlock ==
    /\ alive
    /\ pc["operator"] = "query"
    /\ mu' = [mu EXCEPT !.readers = @ \ {"operator"}]
    /\ Goto("operator", "idle")
    /\ UNCHANGED <<Cache, Filters, alive, arg>>
    /\ LockFrame

\* the rebroadcast ticker fires: rebroadcastMessages takes the read lock
RbRLock ==
    /\ alive
    /\ pc["rebroadcast"] = "idle"
    /\ CanRLock(mu)
    /\ mu' = [mu EXCEPT !.readers = @ \cup {"rebroadcast"}]
    /\ Goto("rebroadcast", "rebroadcastMessages")
    /\ UNCHANGED <<Cache, Filters, alive, arg>>
    /\ LockFrame

RbBody ==
    /\ alive
    /\ pc["rebroadcast"] = "rebroadcastMessages"
    /\ Cache' = rebroadcastMessages(Cache, now).Cache
    /\ Goto("rebroadcast", "unlock")
    /\ UNCHANGED <<Filters, alive, mu, arg>>
    /\ LockFrame

RbRUnlock ==
    /\ alive
    /\ pc["rebroadcast"] = "unlock"
    /\ mu' = [mu EXCEPT !.readers = @ \ {"rebroadcast"}]
    /\ Goto("rebroadcast", "idle")
    /\ UNCHANGED <<Cache, Filters, alive, arg>>
    /\ LockFrame

\* the cleanup ticker fires: cleanupExpired takes the lock
ClLock ==
    /\ alive
    /\ pc["cleanup"] = "idle"
    /\ CanLock(mu)
    /\ mu' = [mu EXCEPT !.writer = "cleanup"]
    /\ Goto("cleanup", "cleanupExpired")
    /\ UNCHANGED <<Cache, Filters, alive, arg>>
    /\ LockFrame

ClBody ==
    /\ alive
    /\ pc["cleanup"] = "cleanupExpired"
    /\ Cache' = cleanupExpired(Cache, now)
    /\ Goto("cleanup", "unlock")
    /\ UNCHANGED <<Filters, alive, mu, arg>>
    /\ LockFrame

ClUnlock ==
    /\ alive
    /\ pc["cleanup"] = "unlock"
    /\ mu' = [mu EXCEPT !.writer = "-"]
    /\ Goto("cleanup", "idle")
    /\ UNCHANGED <<Cache, Filters, alive, arg>>
    /\ LockFrame

LockNext ==
    \/ RxLock
    \/ RxBody
    \/ RxUnlock
    \/ OpLock
    \/ OpMutate
    \/ OpRecalc
    \/ OpUnlock
    \/ OpRLock
    \/ OpRUnlock
    \/ RbRLock
    \/ RbBody
    \/ RbRUnlock
    \/ ClLock
    \/ ClBody
    \/ ClUnlock

LockSpec == Init /\ [][LockNext]_vars

-----------------------------------------------------------------------------
(* The lock with its waiting made visible.  A goroutine that calls Lock is   *)
(* at "Lock" until it holds the RWMutex's inner mutex, then at "draining"    *)
(* while the readers that hold the lock leave; from the moment it drains, a  *)
(* new RLock waits.  A goroutine that calls RLock is at "RLock" until it is  *)
(* let in.                                                                   *)

\* the handler a goroutine is in once it holds the lock
BodyOf(t, kind) ==
    CASE t = "receiver" -> "addMessage"
      [] t = "cleanup" -> "cleanupExpired"
      [] t = "rebroadcast" -> "rebroadcastMessages"
      [] t = "operator" -> IF kind = "Lock" THEN "mutate" ELSE "query"

\* the lock each goroutine's handlers ask for
LockKinds(t) ==
    CASE t \in {"receiver", "cleanup"} -> {"Lock"}
      [] t = "rebroadcast" -> {"RLock"}
      [] t = "operator" -> {"Lock", "RLock"}

\* goroutine t calls s.mu.Lock() or s.mu.RLock()
Call(t) ==
    /\ alive
    /\ pc[t] = "idle"
    /\ \E kind \in LockKinds(t) :
        /\ Goto(t, kind)
        /\ IF t = "operator" /\ kind = "Lock"
           THEN \E cmd \in FilterCmds : arg' = cmd
           ELSE arg' = arg
    /\ UNCHANGED <<Cache, Filters, alive, mu>>
    /\ LockFrame

\* Lock: t has the inner mutex, and readers that come now wait
Announce(t) ==
    /\ alive
    /\ pc[t] = "Lock"
    /\ mu.writer = "-"
    /\ \A u \in Threads : pc[u] # "draining"
    /\ Goto(t, "draining")
    /\ UNCHANGED <<Cache, Filters, alive, mu, arg>>
    /\ LockFrame

\* Lock returns when the last reader has left; RLock returns when no writer
\* holds the lock or drains it
Grant(t) ==
    /\ alive
    /\ \/ /\ pc[t] = "draining"
          /\ mu.readers = {}
          /\ mu' = [mu EXCEPT !.writer = t]
          /\ Goto(t, BodyOf(t, "Lock"))
       \/ /\ pc[t] = "RLock"
          /\ mu.writer = "-"
          /\ \A u \in Threads : pc[u] # "draining"
          /\ mu' = [mu EXCEPT !.readers = @ \cup {t}]
          /\ Goto(t, BodyOf(t, "RLock"))
    /\ UNCHANGED <<Cache, Filters, alive, arg>>
    /\ LockFrame

\* a handler that holds the lock takes its next step
Holding ==
    \/ RxBody
    \/ RxUnlock
    \/ OpMutate
    \/ OpRecalc
    \/ OpUnlock
    \/ OpRUnlock
    \/ RbBody
    \/ RbRUnlock
    \/ ClBody
    \/ ClUnlock

WaitNext ==
    \/ \E t \in Threads : Call(t)
    \/ \E t \in Threads : Announce(t)
    \/ \E t \in Threads : Grant(t)
    \/ Holding

\* one tag filter, a cache of one entry
WaitInit == Init /\ MaxCacheSize = 1 /\ Filters.Locations = <<>>

\* A goroutine that holds the lock runs on to its deferred Unlock.  A waiting
\* Lock gets the inner mutex in its turn (sync.Mutex hands it over to the
\* longest waiter), and Unlock lets the waiting readers in before the next
\* writer: a call that can return again and again does return.
WaitSpec ==
    /\ WaitInit
    /\ [][WaitNext]_vars
    /\ WF_vars(Holding)
    /\ \A t \in Threads : SF_vars(Announce(t)) /\ SF_vars(Grant(t))

-----------------------------------------------------------------------------
(* The properties.  Each is written over the variables alone, so that it    *)
(* does not hold by the definitions above being what they are.              *)

\* the hashes of the bundles the last step published
EmittedHashes == {p[1] : p \in UNION {b.Messages : b \in emitted}}

\* the age and the ttl of a cached entry, in clock units
AgeOf(entry) == now - entry.Message.Timestamp
TTLOf(entry) == entry.Message.TTL * DayUnits

\* C1: with max_cache_size at least 1, the cache holds at most max_cache_size
\* entries whenever an ingest has completed (every step of the model is a
\* completed operation).
C1_CacheBounded ==
    MaxCacheSize >= 1 => Cardinality(DOMAIN Cache) <= MaxCacheSize

\* C1 case: an ingest inserted into a full cache, evicted, and left it full
C1_Witness ==
    /\ alive
    /\ op.name = "messageReceiver"
    /\ op.inserted
    /\ op.removed # {}
    /\ Cardinality(DOMAIN Cache) = MaxCacheSize

\* C2 as stated: ingesting the same (hash, message) pair a second time, straight
\* after the first, leaves the cache as the first left it (addMessage does not
\* write the filters).
C2_SecondIngestIsNoOp ==
    \A p \in Pairs :
        \A r1 \in addMessage(Cache, Filters, MaxCacheSize, p[1], p[2], now) :
            ~r1.panicked =>
                \A r2 \in addMessage(r1.Cache, Filters, MaxCacheSize, p[1], p[2], now) :
                    r2.Cache = r1.Cache

\* C2 amended: the second ingest leaves the cache as the first left it, except
\* where the first evicted the message it had just inserted: the second then
\* inserts it again and may keep it, evicting in its place an entry of the same
\* priority.
C2_SecondIngestNoOpUnlessTie ==
    \A p \in Pairs :
        \A r1 \in addMessage(Cache, Filters, MaxCacheSize, p[1], p[2], now) :
            ~r1.panicked =>
                \A r2 \in addMessage(r1.Cache, Filters, MaxCacheSize, p[1], p[2], now) :
                    \/ r2.Cache = r1.Cache
                    \/ /\ p[1] \notin DOMAIN r1.Cache
                       /\ p[1] \in DOMAIN r2.Cache
                       /\ \E k \in DOMAIN r1.Cache :
                            /\ DOMAIN r2.Cache = (DOMAIN r1.Cache \ {k}) \cup {p[1]}
                            /\ r1.Cache[k].Priority = r2.Cache[p[1]].Priority
                            /\ \A j \in DOMAIN r1.Cache \ {k} : r2.Cache[j] = r1.Cache[j]

\* C2 case: an ingest has just inserted a message into a full cache and kept
\* it, so that the same pair arriving again finds it cached
C2_Witness ==
    /\ alive
    /\ op.name = "messageReceiver"
    /\ op.inserted
    /\ op.removed # {}
    /\ op.hash \in DOMAIN Cache
    /\ \E p \in Pairs : p[1] = op.hash /\ Cache[op.hash].Message = p[2]

\* C3 as stated: over an execution a hash is inserted and surfaced at most once.
C3_InsertedAtMostOnce ==
    [][(op'.name = "messageReceiver" /\ op'.inserted) => op'.hash \notin seen]_vars

\* C3 amended: an ingest inserts and surfaces a hash exactly when the cache
\* does not hold it at that moment, so at most once for as long as the entry
\* stays cached.
C3_InsertedIffAbsent ==
    [][(op'.name = "messageReceiver" /\ op'.hash # NoHash)
        => (op'.inserted <=> op'.hash \notin DOMAIN Cache)]_vars

\* C3 case: a bundle brought a hash that is cached and nothing was inserted
C3_Witness ==
    /\ alive
    /\ op.name = "messageReceiver"
    /\ ~op.inserted
    /\ op.hash \in DOMAIN Cache
    /\ op.hash \in seen

\* C4: an ingest that takes the cache past max_cache_size removes exactly one
\* entry, and no entry that remains has a priority below the removed one's.
C4_EvictsOneLowest ==
    [][(/\ op'.name = "messageReceiver"
        /\ op'.inserted
        /\ alive'
        /\ Cardinality(DOMAIN Cache) + 1 > MaxCacheSize)
        => /\ Cardinality(op'.removed) = 1
           /\ \A r \in op'.removed :
                /\ DOMAIN Cache' = (DOMAIN Cache \cup {op'.hash}) \ {r.hash}
                /\ r.hash \in DOMAIN Cache => r.priority = Cache[r.hash].Priority
                /\ \A k \in DOMAIN Cache' : r.priority <= Cache'[k].Priority]_vars

\* C4 case: the cache held a high and a low entry, a message scoring between
\* them arrived, and the low one went
C4_Witness ==
    /\ alive
    /\ op.name = "messageReceiver"
    /\ op.inserted
    /\ op.hash \in DOMAIN Cache
    /\ \E r \in op.removed :
         /\ r.hash # op.hash
         /\ r.priority < Cache[op.hash].Priority
         /\ \E k \in DOMAIN Cache : Cache[k].Priority > Cache[op.hash].Priority

\* C5 as stated: whatever bytes arrive, bundles with an empty key or a key
\* under eight characters included, the ingest finishes and the node goes on.
C5_NodeSurvivesIngest == op.name = "messageReceiver" => alive

\* C6: a payload that does not parse as a bundle leaves cache and filters as
\* they were and surfaces nothing.
C6_UnparsedPayloadDropped ==
    [][(op'.name = "messageReceiver" /\ op'.kind # "ok")
        => /\ Cache' = Cache
           /\ Filters' = Filters
           /\ ~op'.inserted
           /\ alive']_vars

\* C6 case: a payload arrived that failed to parse after its messages had been
\* decoded, and their hash is not in the cache
C6_Witness ==
    /\ op.name = "messageReceiver"
    /\ op.kind = "type"
    /\ \E d \in Payloads :
         /\ d.kind = "type"
         /\ \E p \in d.Messages : p[1] \notin DOMAIN Cache /\ Len(p[1]) >= 8

C8_StoredHopsIncremented ==
    [][op'.name = "rebroadcastMessages"
        => \A h \in EmittedHashes' :
             /\ Cache'[h].Message.Hops = Cache[h].Message.Hops + 1
             /\ Cache'[h].LastSent = now]_vars

\* C9 as stated: an entry ingested with hops h is rebroadcast by this node at
\* most max_hops - h times (sends counts the scans that emitted it).
C9_SendsBounded ==
    \A h \in DOMAIN Cache :
        Cache[h].Message.Hops <= maxHops => sends[h] <= maxHops - Cache[h].Message.Hops

\* C10: a sweep removes exactly the entries older than their ttl, leaves the
\* others as they were, and leaves the filters alone.
C10_SweepRemovesExactlyExpired ==
    [][op'.name = "cleanupExpired"
        => /\ DOMAIN Cache' = {h \in DOMAIN Cache : ~(AgeOf(Cache[h]) > TTLOf(Cache[h]))}
           /\ \A h \in DOMAIN Cache' : Cache'[h] = Cache[h]
           /\ Filters' = Filters]_vars

\* C10 case: a sweep removed an entry and kept one whose age equals its ttl
C10_Witness ==
    /\ op.name = "cleanupExpired"
    /\ op.removed # {}
    /\ \E h \in DOMAIN Cache : AgeOf(Cache[h]) = TTLOf(Cache[h])

\* the keys a bundle of the model can carry
BusHashes == {p[1] : p \in Pairs}

\* C11: with the sweep ticker firing, a cached entry older than its ttl is in
\* time removed from the cache, and so from what list reports.
C11_ExpiredEventuallySwept ==
    \A h \in BusHashes :
        (h \in DOMAIN Cache /\ AgeOf(Cache[h]) > TTLOf(Cache[h])) ~> (h \notin DOMAIN Cache)

\* C11 case: the cache held only entries older than their ttl and a sweep has
\* just left it empty
C11_Witness ==
    /\ alive
    /\ op.name = "cleanupExpired"
    /\ op.removed # {}
    /\ Cache = EmptyCache

\* every cached entry's proximity score and priority are those its message
\* gets against the filters as they are now
ScoresMatchFilters ==
    \A h \in DOMAIN Cache :
        /\ Cache[h].ProximityScore = bestProximity(Filters, Cache[h].Plustags)
        /\ Cache[h].Priority =
              calculatePriority(Filters, Cache[h].Message, Cache[h].PoWBits,
                                Cache[h].ProximityScore, now)

\* C12: whenever a query holds the read lock or an ingest holds the lock, no
\* cached entry's proximity score or priority is behind the filters.
C12_FilterMutationAtomic ==
    ("operator" \in mu.readers \/ mu.writer = "receiver") => ScoresMatchFilters

\* C12 case: a location filter was added after a message with a location was
\* cached, the mutator has returned, and an ingest holds the lock
C12_Witness ==
    /\ arg.name = "addLocationFilter"
    /\ pc["operator"] = "idle"
    /\ mu.writer = "receiver"
    /\ \E h \in DOMAIN Cache : Cache[h].ProximityScore > 0

\* the proximities of an entry's stored plustags to the location filters
PairProximities(entry) ==
    {CalculateProximityTable[entry.Plustags[i], Filters.Locations[j]] :
        i \in 1..Len(entry.Plustags), j \in 1..Len(Filters.Locations)}

FilterMutators ==
    {"addHashtagFilter", "removeHashtagFilter", "addLocationFilter",
     "removeLocationFilter", "clearFilters"}

\* C13: a filter add, remove or clear leaves the set of cached hashes as it
\* was, also when the cache is at max_cache_size.
C13_FilterMutationKeepsHashes ==
    [][op'.name \in FilterMutators => DOMAIN Cache' = DOMAIN Cache]_vars

\* C13 case: a hashtag filter was added with the cache at max_cache_size, one
\* entry gained the filter bonus and another did not
C13_Witness ==
    /\ op.name = "addHashtagFilter"
    /\ Cardinality(DOMAIN Cache) = MaxCacheSize
    /\ \E h, k \in DOMAIN Cache : Cache[h].Priority >= 1000 /\ Cache[k].Priority < 1000

C16_CachedMessagesWellFormed ==
    \A h \in DOMAIN Cache :
        /\ Cache[h].Message.Hops >= 0
        /\ Cache[h].Message.TTL >= 1
        /\ Cache[h].Message.Raw # ""

\* C17 as stated: every cached entry's key is the first 16 hex characters of
\* SHA-256 over its raw text, so no two entries have the same raw text.
C17_KeyIsContentAddress ==
    /\ \A h \in DOMAIN Cache : h = generateHash(Cache[h].Message.Raw)
    /\ \A h, k \in DOMAIN Cache : Cache[h].Message.Raw = Cache[k].Message.Raw => h = k

-----------------------------------------------------------------------------
\* C18: a publish, whether the bus takes the bundle or returns an error,
\* leaves the cache (its keys and every field of every entry) and the filters
\* as they were; a hash enters the cache only in a step of the receiver
\* callback, which is how the node's own message comes in, by the bus echo.
C18_PublishLeavesCacheAndFilters ==
    [][/\ op'.name = "publishMessage" => (Cache' = Cache /\ Filters' = Filters)
       /\ (DOMAIN Cache' \ DOMAIN Cache # {}) => op'.name = "messageReceiver"]_vars

\* a publish that the bus refused, at a node with filters and a cached entry
\* that is not the message published
C18_Witness ==
    /\ op.name = "publishMessage"
    /\ op.kind = "error"
    /\ DOMAIN Cache # {}
    /\ op.hash \notin DOMAIN Cache
    /\ Filters.Hashtags # <<>>

-----------------------------------------------------------------------------
\* the bundles the publish that ran last put on the bus
PublishedBundles == IF op.name = "publishMessage" THEN emitted ELSE {}

IsHashtag(tag) == Len(tag) > 0 /\ Char(tag, 1) = "#"

\* C19: a bundle built by publish holds exactly one message, under the first
\* 16 hex characters of SHA-256 of its raw text, which is the proof-of-work
\* envelope when work is attached; the message has hops 0, ttl 7 days, origin
\* "anonymous", empty sig, pubkey and servername, and tags without repeats
\* with the textual hashtags before the plustags; feeds and push are empty.
C19_PublishedBundleShape ==
    \A b \in PublishedBundles :
        /\ Cardinality(b.Messages) = 1
        /\ b.Feeds = <<>>
        /\ b.Push = <<>>
        /\ \A p \in b.Messages :
            LET m == p[2]
            IN  /\ p[1] = op.hash
                /\ p[1] = generateHash(m.Raw)
                /\ Len(p[1]) = 16
                /\ AutoPoWBits > 0 => m.Raw \notin PublishTexts
                /\ m.Hops = 0
                /\ m.TTL = 7
                /\ m.Origin = [Display |-> "anonymous", PubKey |-> "", ServerName |-> ""]
                /\ m.Sig = ""
                /\ \A i, j \in 1..Len(m.Tags) :
                    /\ i # j => m.Tags[i] # m.Tags[j]
                    /\ i < j => ~(~IsHashtag(m.Tags[i]) /\ IsHashtag(m.Tags[j]))

\* a published bundle whose message has two hashtags, one of them written
\* twice in the text, and two plustags
C19_Witness ==
    \E b \in PublishedBundles : \E p \in b.Messages :
        /\ Len(p[2].Tags) = 4
        /\ IsHashtag(p[2].Tags[2])
        /\ ~IsHashtag(p[2].Tags[3])

-----------------------------------------------------------------------------
\* the keys the index of message m is to have: its textual tags, and every
\* parent of every plustag
IndexKeys(m) ==
    {m.Tags[i] : i \in {k \in 1..Len(m.Tags) : IsHashtag(m.Tags[k])}}
    \cup UNION {Elements(GetParentPlustags(m.Tags[i])) :
                    i \in {k \in 1..Len(m.Tags) : ~IsHashtag(m.Tags[k])}}

\* C20 as stated: in a bundle built by publish the keys of the index are the
\* textual tags and the parents of every extracted pluscode, and every key
\* maps to the list that holds the message hash once and nothing else, also
\* when pluscodes of the message share a parent.
C20_IndexMapsEachKeyToHashOnce ==
    \A b \in PublishedBundles : \A p \in b.Messages :
        /\ DOMAIN b.Index = IndexKeys(p[2])
        /\ \A key \in DOMAIN b.Index : b.Index[key] = <<p[1]>>

-----------------------------------------------------------------------------
\* the hashtags written in the texts the operator publishes
WrittenHashtags(text) ==
    CASE text = "hi #oln" -> {"#oln"}
      [] text = "#b #a 6FG22233+ 6FG22244+ #a" -> {"#a", "#b"}

\* C21 as stated: for a text published plainly, with !pow, or under
\* --auto-pow, the message's tags hold every hashtag written in the text, in
\* the case it was written in, and the index of the bundle maps every such
\* hashtag to the list of the message hash.
C21_WrittenHashtagsAreTagsAndKeys ==
    \A b \in PublishedBundles : \A p \in b.Messages :
        \A tag \in WrittenHashtags(arg.value) :
            /\ InSeq(tag, p[2].Tags)
            /\ tag \in DOMAIN b.Index
            /\ b.Index[tag] = <<p[1]>>

-----------------------------------------------------------------------------
\* the bundles the rebroadcast scan that ran last put on the bus
RebroadcastBundles == IF op.name = "rebroadcastMessages" THEN emitted ELSE {}

\* C22 as stated: a bundle of a rebroadcast holds the one rebroadcast message
\* under its cache hash, its index maps each textual tag and each parent of
\* each pluscode of the message to the list of that hash, as a publish does,
\* and feeds and push are empty.
C22_RebroadcastBundleIndexed ==
    \A b \in RebroadcastBundles :
        /\ Cardinality(b.Messages) = 1
        /\ b.Feeds = <<>>
        /\ b.Push = <<>>
        /\ \A p \in b.Messages :
            /\ p[1] \in DOMAIN Cache
            /\ p[2].Raw = Cache[p[1]].Message.Raw
            /\ DOMAIN b.Index = IndexKeys(p[2])
            /\ \A key \in DOMAIN b.Index : b.Index[key] = <<p[1]>>

-----------------------------------------------------------------------------
\* the goroutines that wait on stopChan
StoppableTasks == {"receiver", "rebroadcast", "cleanup"}

\* C23 as stated: stop is closed once, and only after the operator's input
\* loop has ended; once it is closed, the subscriber task, the rebroadcast
\* ticker task and the sweep ticker task each return in the end.
C23_StopEndsEveryTask ==
    /\ [][stopChan' # stopChan =>
            /\ stopChan = "open"
            /\ stopChan' = "closed"
            /\ pc["operator"] = "ended"]_vars
    /\ \A t \in StoppableTasks : (stopChan = "closed") ~> (pc[t] = "returned")

-----------------------------------------------------------------------------
\* C24: the envelope CreatePoWMessage returns for bits b, a keyword and a
\* payload has at least b leading zero bits: ValidatePoW of it is at least b.
C24_EnvelopeHasTheBits ==
    (call.fn = "ValidatePoW" /\ call.from # <<>>) => call.result >= call.from[1]

\* ValidatePoW has run on an envelope made for two bits and a keyword with a
\* percent sign
C24_Witness ==
    /\ call.fn = "ValidatePoW"
    /\ call.from # <<>>
    /\ call.from[1] = 2
    /\ call.from[2] = "5%"
    /\ call.result >= 2

-----------------------------------------------------------------------------
\* s is a run of n or more decimal digits
IsDigits(s, n) ==
    Len(s) >= n /\ \A k \in 1..Len(s) : IndexFrom("0123456789", Char(s, k), 1) # 0

\* C25 as stated: ParsePoWMessage of the envelope that CreatePoWMessage made
\* from a keyword and a payload succeeds and returns that payload and that
\* keyword, also when the keyword holds ";"; the nonce is a decimal integer
\* and the date a timestamp of 14 digits.
C25_ParseReturnsWhatWasEncoded ==
    (call.fn = "ParsePoWMessage" /\ call.from # <<>>) =>
        /\ ~call.result.err
        /\ call.result.message = call.from[3]
        /\ call.result.keyword = call.from[2]
        /\ IsDigits(call.result.nonce, 1)
        /\ IsDigits(call.result.date, 14) /\ Len(call.result.date) = 14

\* C26 as stated: ValidatePoW returns 0 for every string that ParsePoWMessage
\* rejects (fewer than four fields, or a third field that is not base64),
\* and the number of leading zero bits of the string's SHA-1 otherwise.
C26_ValidateIsZeroWhenParseFails ==
    (call.fn = "ValidatePoW" /\ call.done) =>
        call.result = IF ParsePoWMessage(call.args[1]).err
                        THEN 0
                        ELSE SHA1LeadingZeros(call.args[1])

\* the rule of validity as the claim words it: one "+", a prefix of 8
\* characters, a suffix of at most 2, and every character other than "0" in
\* the base-20 alphabet
StatedValid(code) ==
    LET parts == Split(code, "+")
        InAlphabetOrZero(str) ==
            \A k \in 1..Len(str) : Char(str, k) = "0" \/ IsBase20(Char(str, k))
    IN  /\ Len(parts) = 2
        /\ Len(parts[1]) = 8
        /\ Len(parts[2]) <= 2
        /\ InAlphabetOrZero(parts[1])
        /\ InAlphabetOrZero(parts[2])

\* C27 as stated: ValidatePluscode(code) is true exactly when code has one
\* "+", a prefix of 8 characters, a suffix of at most 2, and no character
\* other than "0" outside the base-20 alphabet; "6FG22200+" and "00000000+"
\* are valid.
C27_ValidExactlyWhenWellFormed ==
    (call.fn = "ValidatePluscode" /\ call.done) => call.result = StatedValid(call.args[1])

\* the list of parents as the claim words it
StatedParents(c) ==
    LET parts == Split(c, "+")
        prefix == parts[1]
        suffix == parts[2]
    IN  <<c>>
        \o (IF suffix # "" THEN <<prefix \o "+">> ELSE <<>>)
        \o (IF Len(suffix) = 2 THEN <<prefix \o "+" \o Char(suffix, 1)>> ELSE <<>>)
        \o << SubSeq(prefix, 1, 6) \o "00+",
              SubSeq(prefix, 1, 4) \o "0000+",
              SubSeq(prefix, 1, 2) \o "000000+",
              "00000000+" >>

\* C28 as stated: for every valid pluscode c GetParentPlustags(c) is the
\* list c, prefix+ (if there is a suffix), prefix+suffix[0] (if the suffix
\* has two characters), prefix[:6]00+, prefix[:4]0000+, prefix[:2]000000+,
\* 00000000+, which starts with c and ends with 00000000+; for an invalid
\* code it is the empty list.
C28_ParentsOfEveryValidCode ==
    (call.fn = "GetParentPlustags" /\ call.done) =>
        call.result = IF StatedValid(call.args[1]) THEN StatedParents(call.args[1]) ELSE <<>>

\* the length of the longest common prefix of two strings
RECURSIVE CommonPrefixLen(_, _)
CommonPrefixLen(a, b) ==
    IF a = "" \/ b = "" \/ Head(a) # Head(b) THEN 0
    ELSE 1 + CommonPrefixLen(Tail(a), Tail(b))

\* the score as the claim words it
StatedProximity(a, b) ==
    IF StatedValid(a) /\ StatedValid(b)
    THEN (CommonPrefixLen(Split(a, "+")[1], Split(b, "+")[1]) * 500) \div 8
    ELSE 0

\* C29 as stated: CalculateProximity(a, b) is floor(k * 500 / 8) with k the
\* length of the longest common prefix of the two prefixes, and 0 when either
\* code is invalid; so it is 500 for a valid code and itself, the same in
\* either order of its arguments, and always within 0..500.
C29_ProximityIsTheSharedPrefixScore ==
    (call.fn = "CalculateProximity" /\ call.done) =>
        /\ call.result = StatedProximity(call.args[1], call.args[2])
        /\ (StatedValid(call.args[1]) /\ call.args[1] = call.args[2]) => call.result = 500
        /\ call.result = CalculateProximity(call.args[2], call.args[1])
        /\ call.result \in 0..500

\* C30 as stated: CalculateProximity("6FG22222+", "6FG22299+") is 312.
C30_ExampleScores312 ==
    (call.fn = "CalculateProximity" /\ call.done /\ call.args = <<"6FG22222+", "6FG22299+">>)
        => call.result = 312

\* C30, corrected: the two prefixes share six leading characters, and
\* CalculateProximity("6FG22222+", "6FG22299+") is 6 * 500 / 8 = 375.
C30_ExampleScores375 ==
    (call.fn = "CalculateProximity" /\ call.done /\ call.args = <<"6FG22222+", "6FG22299+">>)
        => /\ CommonPrefixLen("6FG22222", "6FG22299") = 6
           /\ call.result = 375

C30_Witness ==
    /\ call.fn = "CalculateProximity"
    /\ call.done
    /\ call.args = <<"6FG22222+", "6FG22299+">>
    /\ call.result = 375

\* the rows of a list are entries of the cache, each once, with its priority
ListedFrom(rows, cache) ==
    /\ \A i \in 1..Len(rows) :
            rows[i].hash \in DOMAIN cache /\ rows[i].priority = cache[rows[i].hash].Priority
    /\ \A i, j \in 1..Len(rows) : rows[i].hash = rows[j].hash => i = j

\* the count typed after !list, for the arguments of the model
TypedCount(args) ==
    CASE args \in {<<"1">>, <<"1", "full">>} -> 1
      [] args = <<"3">> -> 3
      [] args = <<"0">> -> 0
      [] args = <<"-1">> -> -1
      [] OTHER -> 0

\* C31: !list shows entries of the cache in non-increasing order of stored
\* priority, min(N, |cache|) of them when a positive N is typed and all of
\* them otherwise, and leaves the cache and the filters as they were; so an
\* entry of priority 1200 is listed before one of priority 200.
C31_ListRanksAndTruncates ==
    [][op'.name = "listMessages" =>
            /\ Cache' = Cache
            /\ Filters' = Filters
            /\ ListedFrom(call'.result, Cache)
            /\ \A i \in 1..(Len(call'.result) - 1) :
                    call'.result[i].priority >= call'.result[i + 1].priority
            /\ Len(call'.result) =
                    IF TypedCount(call'.args) > 0
                    THEN Min(TypedCount(call'.args), Cardinality(DOMAIN Cache))
                    ELSE Cardinality(DOMAIN Cache)]_vars

\* !list has shown an entry of priority 1200 before one of priority 200
C31_Witness ==
    /\ op.name = "listMessages"
    /\ Len(call.result) = 2
    /\ call.result[1].priority = 1200
    /\ call.result[2].priority = 200

\* the recency term as the claim words it: floor(100 * (1 - age/ttl)) when
\* age < ttl, and 0 otherwise
StatedRecency(msg, t) ==
    LET age == t - msg.Timestamp
        ttl == ttlDuration(msg)
    IN  IF age >= ttl THEN 0
        ELSE IF ttl > 0 THEN (100 * (ttl - age)) \div ttl
        ELSE (100 * (age - ttl)) \div (-ttl)

\* the priority as the claim words it
StatedPriority(entry, filters, t) ==
    100
    + (IF matchesFilters(filters, entry.Message) THEN 1000 ELSE 0)
    + entry.ProximityScore
    + StatedRecency(entry.Message, t)
    + 50 * entry.PoWBits
    - 10 * entry.Message.Hops

\* the entries whose priority the last handler has just stored
JustScored ==
    IF op.name = "messageReceiver" /\ op.inserted THEN {op.hash} \cap DOMAIN Cache
    ELSE IF op.name \in {"addHashtagFilter", "clearFilters"} THEN DOMAIN Cache
    ELSE {}

\* C32 as stated: right after an entry is inserted, or recomputed by a filter
\* mutation, its stored priority is 100 + 1000 if it matches + its proximity
\* score + floor(100 * (1 - age/ttl)) while age < ttl + 50 per bit of work
\* - 10 per hop; 1200 for a fresh message of ttl 7 whose tag matches the
\* hashtag filter, 200 when it does not.
C32_PriorityIsTheStatedSum ==
    \A h \in JustScored : Cache[h].Priority = StatedPriority(Cache[h], Filters, now)

\* equality but for case, and presence in the text as written, evaluated
\* once over the strings of the model
SameButForCase == [a \in FilterTagStrings, b \in MsgTagStrings |-> ToLower(a) = ToLower(b)]

FoundIn ==
    [text \in RawTexts, sub \in FilterLocationStrings |->
        \E k \in 1..(Len(text) - Len(sub) + 1) : SubSeq(text, k, k + Len(sub) - 1) = sub]

\* a match as the claim words it: a filter hashtag equal to a tag of the
\* message but for case, or a filter location found in the raw text as written
StatedMatches(filters, msg) ==
    \/ \E i \in 1..Len(filters.Hashtags), j \in 1..Len(msg.Tags) :
            SameButForCase[filters.Hashtags[i], msg.Tags[j]]
    \/ \E i \in 1..Len(filters.Locations) : FoundIn[msg.Raw, filters.Locations[i]]

\* C33: matchesFilters is true exactly when a filter hashtag equals a tag of
\* the message ignoring case or a filter location is a substring of its raw
\* text, and false when there is no filter at all; the 1000 points of a match
\* are in the stored priority of an entry exactly when it matched.
C33_MatchIsTagOrSubstring ==
    \A h \in DOMAIN Cache :
        /\ matchesFilters(Filters, Cache[h].Message) = StatedMatches(Filters, Cache[h].Message)
        /\ (Cache[h].Priority >= 1000) = StatedMatches(Filters, Cache[h].Message)
        /\ (Filters.Hashtags = <<>> /\ Filters.Locations = <<>>)
                => ~matchesFilters(Filters, Cache[h].Message)

\* a cached entry near the operator's location that does not match: the filter
\* is 6FG22222+ and the text names 6FG22233+
C33_Witness ==
    \E h \in DOMAIN Cache :
        /\ Cache[h].ProximityScore > 0
        /\ ~matchesFilters(Filters, Cache[h].Message)
        /\ Cache[h].Priority < 1000

\* the step in which rebroadcastMessages assigns entry.LastSent
RebroadcastWrites ==
    /\ pc["rebroadcast"] = "rebroadcastMessages"
    /\ pc'["rebroadcast"] = "unlock"
    /\ \E h \in DOMAIN Cache : ShouldRebroadcast(Cache[h], now)

\* C34 as stated: a step that writes the cache map, the filters or a field of
\* a cached entry, the rebroadcast's update of last_sent included, is taken
\* while the lock is held exclusively: there is a writer and no reader, so no
\* query runs at the same time as a write.
C34_WritesHoldTheLockExclusively ==
    [][(Cache' # Cache \/ Filters' # Filters \/ RebroadcastWrites)
            => (mu.writer # "-" /\ mu.readers = {})]_vars

\* the part of a cached entry that is fixed when it is inserted
FixedPart(entry) ==
    [hash |-> entry.Hash, raw |-> entry.Message.Raw, origin |-> entry.Message.Origin,
     timestamp |-> entry.Message.Timestamp, ttl_days |-> entry.Message.TTL,
     tags |-> entry.Message.Tags, pow_bits |-> entry.PoWBits, plustags |-> entry.Plustags,
     first_seen |-> entry.FirstSeen]

\* C35: no step changes the hash, raw text, origin, timestamp, ttl, tags,
\* bits of work, pluscodes or first-seen time of an entry that is in the cache
\* before and after it; hops, last-sent time, proximity score and priority are
\* all that a step updates in place.
C35_EntriesKeepTheirFixedPart ==
    [][\A h \in DOMAIN Cache \cap DOMAIN Cache' :
            FixedPart(Cache'[h]) = FixedPart(Cache[h])]_vars

\* an entry has been updated in place: a rebroadcast later than its insertion
\* has refreshed its last-sent time
C35_Witness ==
    /\ op.name = "rebroadcastMessages"
    /\ \E h \in DOMAIN Cache : Cache[h].LastSent > Cache[h].FirstSeen

\* no string occurs twice in q
NoDuplicate(q) == \A i, j \in 1..Len(q) : q[i] = q[j] => i = j

\* C36 as stated: in every state, the one built from --tag and --location
\* included, neither filter list holds a string twice; adding a tag that is
\* present leaves the filters as they are, and removing a tag leaves no
\* occurrence of it.
C36_FiltersHoldNoDuplicate ==
    /\ [](NoDuplicate(Filters.Hashtags) /\ NoDuplicate(Filters.Locations))
    /\ [][/\ op'.name = "addHashtagFilter" =>
                \E v \in TagInputs :
                    Filters' = IF InSeq(v, Filters.Hashtags) THEN Filters
                               ELSE [Filters EXCEPT !.Hashtags = Append(@, v)]
          /\ op'.name = "removeHashtagFilter" =>
                \E v \in TagInputs : ~InSeq(v, Filters'.Hashtags)]_vars

\* goroutine t has called Lock or RLock and the call has not returned
Waiting(t) == pc[t] \in {"Lock", "draining", "RLock"}

\* goroutine t holds the lock
Holds(t) == mu.writer = t \/ t \in mu.readers

\* C37 as stated: a goroutine that holds the lock is not asking for it again,
\* a writer holds it alone, and every call of Lock or RLock by any of the four
\* tasks returns in the end: no task waits for the lock for ever.
C37_EveryLockRequestIsGranted ==
    /\ [](\A t \in Threads : Holds(t) => ~Waiting(t))
    /\ [](mu.writer # "-" => mu.readers = {})
    /\ \A t \in Threads : Waiting(t) ~> Holds(t)

\* what is left of an entry's stored priority once the base score, the
\* filter bonus, the proximity score, the work and the hops are taken out
RecencyTerm(entry) ==
    entry.Priority - 100
    - (IF matchesFilters(Filters, entry.Message) THEN 1000 ELSE 0)
    - entry.ProximityScore
    - 50 * entry.PoWBits
    + 10 * entry.Message.Hops

\* C38 as stated: the recency term in the stored priority of every cached
\* entry is between 0 and 100, whatever timestamp the message came with, one
\* later than this node's clock included.
C38_RecencyWithinBounds ==
    \A h \in DOMAIN Cache : RecencyTerm(Cache[h]) \in 0..100

\* the entry is past its ttl, or at the hop limit
Late(entry) == AgeOf(entry) > TTLOf(entry) \/ entry.Message.Hops >= maxHops

\* the late entries that are cached before this step and not after it
LateDropped == {h \in DOMAIN Cache \ DOMAIN Cache' : Late(Cache[h])}

\* the receiver has handed a message with a hash that is not cached to ingest
IngestOfUnseen == op'.name = "messageReceiver" /\ op'.hash # NoHash /\ op'.hash \notin DOMAIN Cache

\* the entry of hash h was evicted by the ingest of this step
EvictedNow(h) ==
    op'.name = "messageReceiver" /\ [hash |-> h, priority |-> Cache[h].Priority] \in op'.removed

\* C39 as stated: a message with an unseen hash is inserted and shown, late as
\* it may be, and a late entry leaves the cache only by a TTL sweep or an
\* eviction.
C39_LateStaysUntilSweepOrEviction ==
    [][/\ IngestOfUnseen => op'.inserted
       /\ \A h \in LateDropped : op'.name = "cleanupExpired" \/ EvictedNow(h)]_vars

\* C39, corrected: a message with an unseen hash is inserted and shown, late
\* as it may be, and a late entry leaves the cache only by a TTL sweep, an
\* eviction, the operator's !clear, or the end of the process.
C39_LateStaysUntilRemoved ==
    [][/\ IngestOfUnseen => op'.inserted
       /\ \A h \in LateDropped :
            \/ op'.name = "cleanupExpired"
            \/ EvictedNow(h)
            \/ op'.name = "clearCache"
            \/ ~alive']_vars

\* an ingest has just inserted a message that was past its ttl when it came,
\* next to a cached entry at the hop limit
C39_Witness ==
    /\ op.name = "messageReceiver"
    /\ op.inserted
    /\ op.hash \in DOMAIN Cache
    /\ AgeOf(Cache[op.hash]) > TTLOf(Cache[op.hash])
    /\ \E h \in DOMAIN Cache : Cache[h].Message.Hops >= maxHops

====
